---- MODULE Spec2Model ----
(***************************************************************************)
(* A model of the StateManager class of src/src/stateManager.js: an        *)
(* observable state container with middleware, undo/redo history,          *)
(* debounced and batched writes, listener/event fan-out and error          *)
(* containment; and of the PersistenceMiddleware class of                  *)
(* src/src/persistenceMiddleware.js, which keeps a state in a file.        *)
(*                                                                         *)
(* Every method of the class is an operator of the same name that maps a   *)
(* manager record (the fields of `this`, the host's localStorage and the   *)
(* log of the callbacks invoked so far) to the record after the method     *)
(* has run.  Every public operation is an action that applies the          *)
(* operator to the current fields.                                         *)
(***************************************************************************)
EXTENDS Integers, Sequences, FiniteSets, TLC

VARIABLES
    state,                \* this.state
    initialState,         \* this.initialState
    prevState,            \* this.prevState
    listeners,            \* this.listeners: sequence of listener functions
    middlewares,          \* this.middlewares: sequence of {middleware, enabled}
    eventListeners,       \* this.eventListeners: ordered keys, each with its callbacks
    undoStack,            \* this.undoStack
    redoStack,            \* this.redoStack
    debounceTimeout,      \* the pending debounce timers of the runtime, each a closure
    batchUpdatePending,   \* this.batchUpdatePending
    batchUpdateQueue,     \* this.batchUpdateQueue
    deepStateComparison,  \* this.deepStateComparison
    errorHandler,         \* this.errorHandler
    localStorage,         \* the host's localStorage global (may be undefined)
    heap,                 \* the nested objects of the JavaScript heap, by cell number
    returned,             \* the value the last public operation returned, if any
    calls,                \* callbacks invoked by the last public operation, in order
    thrown,               \* the exception the last public operation threw to its caller
    op,                   \* the last public operation and its arguments
    detachers,            \* the detach closures returned so far by subscribe() and on()
    rt,                   \* progress of a setState / undo / redo round trip
    burst,                \* the debounced setState calls since the timer last fired:
                          \* how many, and the arguments of the last one
    born,                 \* the argument of the constructor and what getState()
                          \* returned right after construction
    held,                 \* the nested objects the application still holds, by the
                          \* way it got them, each with the copy mode of that moment
    persistence,          \* the PersistenceMiddleware object: filePath and options
    files,                \* the files of the host, by path
    resolved,             \* what the last PersistenceMiddleware operation resolved with
    backedUp,             \* the state of the last backupState that resolved with true, as
                          \* long as only saveState, loadState, deleteFile, truncateFile
                          \* and restoreFromBackup have followed it
    diskFull,             \* the device of the files has no space left
    inFlight,             \* the commits that are suspended at an await, by slot
    microtasks            \* the slots of the commits whose continuation is queued,
                          \* in the order the event loop runs them

vars == <<state, initialState, prevState, listeners, middlewares, eventListeners,
          undoStack, redoStack, debounceTimeout, batchUpdatePending,
          batchUpdateQueue, deepStateComparison, errorHandler, localStorage,
          heap, returned, calls, thrown, op, detachers, rt, burst, born,
          held, persistence, files, resolved, backedUp, diskFull, inFlight,
          microtasks>>

-----------------------------------------------------------------------------
(* Bounds of the model *)

MaxHist == 2          \* undo stack entries + redo stack entries
MaxQueue == 2         \* queued partials of one batch
MaxBurst == 3         \* debounced setState calls before the timer fires

-----------------------------------------------------------------------------
(* Values *)

NULL == "null"
NoError == "none"

\* the value undefined of a key; the other numbers stand for themselves
undefined == 0

\* the value of a key that refers back to the object that holds it, which
\* makes the object circular
circular == 99

\* {}: the object without keys
EmptyObj == [k \in {} |-> 0]

\* Candidate states handed to setState
Candidates == {[a |-> 1], [a |-> 2, b |-> 1]}

\* Partial states handed to mergeState / patchState / queueBatchUpdate
Partials == {[a |-> 2], [a |-> 1, b |-> 1]}

\* Values the caller hands to the constructor
InitialStates == {EmptyObj, [a |-> 1]}

\* Snapshots a previous run may have left in localStorage
StoredStates == {[a |-> 2]}

\* Callbacks of the application.  A callback either returns normally on every
\* call or throws on every call.
Listeners == {"l1", "l2"}

\* "m1" throws when it is called, as validationMiddleware of the README
\* does; "m2" reads its arguments and returns; "m3" assigns a key of the
\* object it is handed as next state and returns; "m4" is async and its
\* promise rejects when its work is done
ThrowingListeners == {"l1"}
\* "l3" calls the detach function subscribe("l2") returned, "l4" calls
\* removeAllListeners(), "l5" subscribes "l2"
DetachingListeners == {"l3"}
RemovingListeners == {"l4"}
SubscribingListeners == {"l5"}
Middlewares == {"m1", "m2"}
ThrowingMiddlewares == {"m1"}
MutatingMiddlewares == {"m3"}
AsyncMiddlewares == {"m4"}
RejectingMiddlewares == {"m4"}

MaxCommits == 2       \* commits that are suspended at the same time
MaxListeners == 4     \* entries of this.listeners when a pass starts
Slots == 1..MaxCommits
EventCallbacks == {"e1", "e2"}
ThrowingEventCallbacks == {"e1"}
\* "a" is also a top-level key of some states, "x" never is
EventNames == {"a", "x"}
\* the registrations the application makes with on(eventName, callback)
EventRegs == {<<"a", "e1">>, <<"a", "e2">>, <<"x", "e2">>}
Payloads == {7}

\* States handed to setState where event listeners are registered: key a
\* holds a number, key a holds undefined, key a is absent
EventStates == {[a |-> 1], [a |-> undefined], [b |-> 1]}

\* States handed to saveState and backupState
SavedStates == {[a |-> 1], [a |-> 2, b |-> 1], [a |-> undefined], [a |-> circular]}

\* A path is the sequence of the pieces of its text.  The test suite uses a
\* file of the working directory and a file of a directory that does not
\* exist.
FilePaths == {<<"state.json">>, <<"/invalid/path/", "state.json">>}

\* `${filePath}.backup`
backupPathOf(filePath) == filePath \o <<".backup">>

\* The paths renameFile is asked for: the new name of the test suite, the
\* path the object already has, and a path of the missing directory
NewFilePaths == FilePaths \cup {<<"renamed-state.json">>}

Paths == NewFilePaths \cup {backupPathOf(filePath) : filePath \in NewFilePaths}

\* the directory of the path exists
dirExists(path) == Head(path) # "/invalid/path/"

FileTypes == {"json", "text"}

\* The states saved onto a device that can run out of space: a plain one and
\* the circular one of the test suite
FileStates == {[a |-> 1], [a |-> circular]}

\* The raw content appended to a file or spliced into it
Contents == {[fmt |-> "other", members |-> {}, spaces |-> 0]}

\* Positions in the text of a file: inside it, and past its end
Positions == {1, 20}

\* the `value` of the nested object of a state { nested: { value: ... } }
NestedValues == {1, 2}

\* the ways the application gets hold of a nested object of a state: it
\* built the argument of setState or mergeState, it called getState(), or its
\* plain listener was called
Origins == {"argument", "getState", "listener"}

-----------------------------------------------------------------------------
(* Helpers of the language: object spread, Object.assign, JSON *)

\* { ...o }: a new object with the top-level keys of o
spread(o) == [k \in DOMAIN o |-> o[k]]

\* { ...o, ...p }: the keys of p overwrite same-named keys of o
spread2(o, p) ==
    [k \in DOMAIN o \cup DOMAIN p |-> IF k \in DOMAIN p THEN p[k] ELSE o[k]]

\* The value of a key is a number or a nested object.  A nested object is
\* held by reference: the value -c refers to cell c of the heap h, which holds
\* the `value` of the nested object { value: ... }.
isObject(v) == v < 0

\* the cells the object o refers to
cellsOf(o) == {-o[k] : k \in {j \in DOMAIN o : isObject(o[j])}}

\* JSON.stringify(o): the text of o, held as its set of members; the text of
\* a nested object is its content, and a key that holds undefined is left out
JSONstringify(h, o) ==
    {IF isObject(o[k]) THEN <<k, "object", h[-o[k]]>> ELSE <<k, "number", o[k]>> :
        k \in {j \in DOMAIN o : o[j] # undefined}}

\* the members of the text t that denote nested objects, in the order in
\* which JSON.parse creates their cells
RECURSIVE parsedCells(_)
parsedCells(t) ==
    LET objects == {mem \in t : mem[2] = "object"}
    IN IF objects = {} THEN <<>>
       ELSE LET mem == CHOOSE x \in objects : TRUE
            IN Append(parsedCells(t \ {mem}), mem)

\* JSON.parse(t): the object the text t denotes; its nested objects are new
\* cells on top of the heap h
JSONparse(h, t) ==
    LET created == parsedCells(t)
    IN [k \in {mem[1] : mem \in t} |->
          LET mem == CHOOSE x \in t : x[1] = k
          IN IF mem[2] = "object"
             THEN -(Len(h) + CHOOSE i \in 1..Len(created) : created[i] = mem)
             ELSE mem[3]]

\* the heap after JSON.parse(t) has created the nested objects of t
JSONparsed(h, t) ==
    LET created == parsedCells(t)
    IN h \o [i \in 1..Len(created) |-> created[i][3]]

\* Object.assign({}, ...queue): left-to-right fold, later sources win
RECURSIVE objectAssign(_, _)
objectAssign(target, sources) ==
    IF sources = <<>> THEN target
    ELSE objectAssign(spread2(target, Head(sources)), Tail(sources))

\* s.filter(x => x !== v)
RECURSIVE filterOut(_, _)
filterOut(s, v) ==
    IF s = <<>> THEN <<>>
    ELSE IF Head(s) = v THEN filterOut(Tail(s), v)
         ELSE <<Head(s)>> \o filterOut(Tail(s), v)

\* One entry of the log of invoked callbacks
\* One statement after another: the value v of the statements so far is
\* computed once and handed to the rest F of the method body.
Then(v, F(_)) == CHOOSE r \in {F(x) : x \in {v}} : TRUE

Call(fn, id, ev, args) == [fn |-> fn, id |-> id, ev |-> ev, args |-> args]

-----------------------------------------------------------------------------
(* The manager record: the fields of `this`, localStorage and the call log *)

This ==
    [state |-> state, initialState |-> initialState, prevState |-> prevState,
     listeners |-> listeners, middlewares |-> middlewares,
     eventListeners |-> eventListeners, undoStack |-> undoStack,
     redoStack |-> redoStack, debounceTimeout |-> debounceTimeout,
     batchUpdatePending |-> batchUpdatePending,
     batchUpdateQueue |-> batchUpdateQueue,
     deepStateComparison |-> deepStateComparison,
     errorHandler |-> errorHandler, localStorage |-> localStorage,
     heap |-> heap, returned |-> <<>>, calls |-> <<>>, thrown |-> NoError]

\* The fields are those of the record m
Is(m) ==
    /\ state = m.state
    /\ initialState = m.initialState
    /\ prevState = m.prevState
    /\ listeners = m.listeners
    /\ middlewares = m.middlewares
    /\ eventListeners = m.eventListeners
    /\ undoStack = m.undoStack
    /\ redoStack = m.redoStack
    /\ debounceTimeout = m.debounceTimeout
    /\ batchUpdatePending = m.batchUpdatePending
    /\ batchUpdateQueue = m.batchUpdateQueue
    /\ deepStateComparison = m.deepStateComparison
    /\ errorHandler = m.errorHandler
    /\ localStorage = m.localStorage
    /\ heap = m.heap
    /\ returned = m.returned
    /\ calls = m.calls
    /\ thrown = m.thrown

\* The fields become those of the record m
Becomes(m) ==
    /\ state' = m.state
    /\ initialState' = m.initialState
    /\ prevState' = m.prevState
    /\ listeners' = m.listeners
    /\ middlewares' = m.middlewares
    /\ eventListeners' = m.eventListeners
    /\ undoStack' = m.undoStack
    /\ redoStack' = m.redoStack
    /\ debounceTimeout' = m.debounceTimeout
    /\ batchUpdatePending' = m.batchUpdatePending
    /\ batchUpdateQueue' = m.batchUpdateQueue
    /\ deepStateComparison' = m.deepStateComparison
    /\ errorHandler' = m.errorHandler
    /\ localStorage' = m.localStorage
    /\ heap' = m.heap
    /\ returned' = m.returned
    /\ calls' = m.calls
    /\ thrown' = m.thrown

-----------------------------------------------------------------------------
(* Methods of StateManager *)

\* the copy the code takes of an object under the active copy mode
copyOf(m, o) ==
    IF m.deepStateComparison THEN JSONparse(m.heap, JSONstringify(m.heap, o))
    ELSE spread(o)

\* the manager once copyOf(m, o) has been evaluated: the deep copy has created
\* its nested objects
withCopyOf(m, o) ==
    IF m.deepStateComparison
    THEN [m EXCEPT !.heap = JSONparsed(@, JSONstringify(@, o))]
    ELSE m

handleError(m, err) ==
    IF m.errorHandler # NULL
    THEN [m EXCEPT !.calls = Append(@, Call("errorHandler", err, "", <<>>))]
    ELSE [m EXCEPT !.calls = Append(@, Call("console.error", err, "", <<>>))]

\* getState that spreads the state in both copy modes
getStateBySpread(m) ==
    spread(m.state)

getState(m) ==
    IF m.deepStateComparison THEN JSONparse(m.heap, JSONstringify(m.heap, m.state))
    ELSE spread(m.state)

\* the for loop of applyMiddlewares over the enabled middleware
RECURSIVE runMiddlewares(_, _, _, _)
runMiddlewares(m, enabledMiddlewares, prev, next) ==
    IF enabledMiddlewares = <<>> THEN m
    ELSE LET middleware == Head(enabledMiddlewares)
             called == [m EXCEPT !.calls =
                           Append(@, Call("middleware", middleware, "", <<prev, next>>))]
             settled == IF middleware \in ThrowingMiddlewares
                        THEN handleError(called, middleware)
                        ELSE called
         IN runMiddlewares(settled, Tail(enabledMiddlewares), prev, next)

\* applyMiddlewares that does not filter on the enabled flag
applyMiddlewaresOfAllEntries(m, prev, next) ==
    runMiddlewares(m, [i \in 1..Len(m.middlewares) |-> m.middlewares[i].middleware],
                   prev, next)

\* applyMiddlewares whose loop ends at the first middleware that throws
applyMiddlewaresUntilThrow(m, prev, next) ==
    LET enabled == SelectSeq(m.middlewares, LAMBDA e : e.enabled)
        enabledMiddlewares == [i \in 1..Len(enabled) |-> enabled[i].middleware]
        throwing == {i \in 1..Len(enabled) : enabledMiddlewares[i] \in ThrowingMiddlewares}
        last == IF throwing = {} THEN Len(enabled)
                ELSE CHOOSE i \in throwing : \A j \in throwing : i <= j
    IN runMiddlewares(m, SubSeq(enabledMiddlewares, 1, last), prev, next)

applyMiddlewares(m, prev, next) ==
    LET enabled == SelectSeq(m.middlewares, LAMBDA e : e.enabled)
        enabledMiddlewares == [i \in 1..Len(enabled) |-> enabled[i].middleware]
    IN runMiddlewares(m, enabledMiddlewares, prev, next)

subscribe(m, listener) ==
    [m EXCEPT !.listeners = Append(@, listener)]

\* the closure returned by subscribe(listener)
unsubscribe(m, listener) ==
    [m EXCEPT !.listeners = filterOut(@, listener)]

removeAllListeners(m) == [m EXCEPT !.listeners = <<>>]

\* one call listener(this.getState()) of the forEach of notifyListeners, in
\* its try/catch: the listener does with the manager what its code says, and
\* an exception it throws goes to handleError
invoke(m, listener) ==
    LET called == [withCopyOf(m, m.state) EXCEPT !.calls =
                      Append(@, Call("listener", listener, "", <<getState(m)>>))]
        done == IF listener \in DetachingListeners THEN unsubscribe(called, "l2")
                ELSE IF listener \in RemovingListeners THEN removeAllListeners(called)
                ELSE IF listener \in SubscribingListeners THEN subscribe(called, "l2")
                ELSE called
    IN IF listener \in ThrowingListeners THEN handleError(done, listener) ELSE done

\* forEach over the array this.listeners refers to from call to call, up to
\* the length it has then
RECURSIVE forEachOfLiveList(_, _)
forEachOfLiveList(m, k) ==
    IF k > Len(m.listeners) THEN m
    ELSE forEachOfLiveList(invoke(m, m.listeners[k]), k + 1)

\* this.listeners.forEach(...): forEach visits the elements of the array it
\* was called on, up to the length the array had at the call.  ls is that
\* array; subscribe appends to the array this.listeners refers to, the detach
\* closures and removeAllListeners make this.listeners refer to a new array
RECURSIVE forEachListener(_, _)
forEachListener(m, ls) ==
    IF ls = <<>> THEN m
    ELSE forEachListener(invoke(m, Head(ls)), Tail(ls))

\* this.eventListeners[eventName].forEach(callback => callback(data))
RECURSIVE forEachCallback(_, _, _, _)
forEachCallback(m, eventName, cbs, data) ==
    IF cbs = <<>> THEN m
    ELSE LET callback == Head(cbs)
             called == [m EXCEPT !.calls =
                           Append(@, Call("eventListener", callback, eventName, <<data>>))]
             settled == IF callback \in ThrowingEventCallbacks
                        THEN handleError(called, callback)
                        ELSE called
         IN forEachCallback(settled, eventName, Tail(cbs), data)

\* Object.keys(this.eventListeners).forEach(...)
RECURSIVE forEachEventName(_, _)
forEachEventName(m, entries) ==
    IF entries = <<>> THEN m
    ELSE LET eventName == Head(entries).name
             fired == IF eventName \in DOMAIN m.state /\ m.state[eventName] # undefined
                      THEN forEachCallback(m, eventName, Head(entries).callbacks,
                                           m.state[eventName])
                      ELSE m
         IN forEachEventName(fired, Tail(entries))

\* notifyListeners that calls the plain listeners last registered first
notifyListenersNewestFirst(m) ==
    forEachEventName(
        forEachListener(m, [i \in 1..Len(m.listeners) |->
                               m.listeners[Len(m.listeners) + 1 - i]]),
        m.eventListeners)

\* notifyListeners that reads this.listeners anew for every listener it calls
notifyListenersOfLiveList(m) ==
    forEachEventName(forEachOfLiveList(m, 1), m.eventListeners)

\* notifyListeners whose pass ends at the first plain listener that throws
notifyListenersUntilThrow(m) ==
    LET throwing == {i \in 1..Len(m.listeners) : m.listeners[i] \in ThrowingListeners}
    IN IF throwing = {}
       THEN forEachEventName(forEachListener(m, m.listeners), m.eventListeners)
       ELSE forEachListener(m, SubSeq(m.listeners, 1,
                               CHOOSE i \in throwing : \A j \in throwing : i <= j))

notifyListeners(m) ==
    forEachEventName(forEachListener(m, m.listeners), m.eventListeners)

\* persistStateToLocalStorage that writes only under a key that holds nothing
persistStateToLocalStorageOnce(m) ==
    IF m.localStorage.defined /\ m.localStorage.item = <<>>
    THEN [m EXCEPT !.localStorage.item = <<JSONstringify(m.heap, m.state)>>]
    ELSE m

\* setItem throws a QuotaExceededError when the storage is full
persistStateToLocalStorage(m) ==
    IF m.localStorage.defined
    THEN IF m.localStorage.full
         THEN handleError(m, "QuotaExceededError")
         ELSE [m EXCEPT !.localStorage.item = <<JSONstringify(m.heap, m.state)>>]
    ELSE m

\* applyStateUpdate that pushes the undo snapshot and keeps the redo stack
applyStateUpdateKeepsRedo(m, nextState, addToUndoStack) ==
    Then(applyMiddlewares(m, m.prevState, nextState), LAMBDA m1 :
    Then(IF addToUndoStack
         THEN [withCopyOf(m1, m1.state) EXCEPT !.undoStack = Append(@, copyOf(m1, m1.state))]
         ELSE m1, LAMBDA m2 :
    Then([withCopyOf(m2, m2.state) EXCEPT !.prevState = copyOf(m2, m2.state)], LAMBDA m3 :
    Then([m3 EXCEPT !.state = nextState], LAMBDA m4 :
    Then(notifyListeners(m4), LAMBDA m5 :
    persistStateToLocalStorage(m5))))))

applyStateUpdate(m, nextState, addToUndoStack) ==
    Then(applyMiddlewares(m, m.prevState, nextState), LAMBDA m1 :
    Then(IF addToUndoStack
         THEN [withCopyOf(m1, m1.state) EXCEPT !.undoStack = Append(@, copyOf(m1, m1.state)),
                         !.redoStack = <<>>]
         ELSE m1, LAMBDA m2 :
    Then([withCopyOf(m2, m2.state) EXCEPT !.prevState = copyOf(m2, m2.state)], LAMBDA m3 :
    Then([m3 EXCEPT !.state = nextState], LAMBDA m4 :
    Then(notifyListeners(m4), LAMBDA m5 :
    persistStateToLocalStorage(m5))))))

\* setState that arms a new timer without clearTimeout of the pending one
setStateWithoutClearTimeout(m, newState, addToUndoStack, debounce) ==
    LET nextState == copyOf(m, newState)
        m0 == withCopyOf(m, newState)
    IN IF debounce
       THEN [m0 EXCEPT !.debounceTimeout =
                Append(@, [nextState |-> nextState, addToUndoStack |-> addToUndoStack])]
       ELSE applyStateUpdate(m0, nextState, addToUndoStack)

\* setState that cancels the pending timer whether or not it debounces
setStateClearingTimeout(m, newState, addToUndoStack, debounce) ==
    LET nextState == copyOf(m, newState)
        m0 == [withCopyOf(m, newState) EXCEPT !.debounceTimeout = <<>>]
    IN IF debounce
       THEN [m0 EXCEPT !.debounceTimeout =
                Append(@, [nextState |-> nextState, addToUndoStack |-> addToUndoStack])]
       ELSE applyStateUpdate(m0, nextState, addToUndoStack)

setState(m, newState, addToUndoStack, debounce) ==
    LET nextState == copyOf(m, newState)
        m0 == withCopyOf(m, newState)
    IN IF debounce
       THEN \* clearTimeout cancels the pending timer, setTimeout arms a new one
            LET cleared == [m0 EXCEPT !.debounceTimeout = <<>>]
            IN [cleared EXCEPT !.debounceTimeout =
                   Append(@, [nextState |-> nextState,
                              addToUndoStack |-> addToUndoStack])]
       ELSE applyStateUpdate(m0, nextState, addToUndoStack)

\* the closure handed to setTimeout by setState, run when the delay has elapsed
debounceTimer(m) ==
    LET closure == Head(m.debounceTimeout)
    IN applyStateUpdate([m EXCEPT !.debounceTimeout = Tail(@)],
                        closure.nextState, closure.addToUndoStack)

\* index of the entry of eventName in this.eventListeners, 0 when it has none
eventIndex(m, eventName) ==
    IF \E i \in 1..Len(m.eventListeners) : m.eventListeners[i].name = eventName
    THEN CHOOSE i \in 1..Len(m.eventListeners) : m.eventListeners[i].name = eventName
    ELSE 0

on(m, eventName, callback) ==
    LET m1 == IF eventIndex(m, eventName) = 0
              THEN [m EXCEPT !.eventListeners =
                       Append(@, [name |-> eventName, callbacks |-> <<>>])]
              ELSE m
        i == eventIndex(m1, eventName)
    IN [m1 EXCEPT !.eventListeners[i].callbacks = Append(@, callback)]

\* the closure returned by on(eventName, callback)
off(m, eventName, callback) ==
    LET i == eventIndex(m, eventName)
    IN IF i = 0
       THEN \* this.eventListeners[eventName] is undefined: .filter throws
            [m EXCEPT !.thrown = "TypeError"]
       ELSE [m EXCEPT !.eventListeners[i].callbacks = filterOut(@, callback)]

applyMiddleware(m, middleware) ==
    [m EXCEPT !.middlewares = Append(@, [middleware |-> middleware, enabled |-> TRUE])]

\* resetState that empties the history stacks as well
resetStateWithHistory(m) ==
    LET prev == copyOf(m, m.state)
        m0 == withCopyOf(m, m.state)
        m1 == [withCopyOf(m0, m0.initialState) EXCEPT !.state = copyOf(m0, m0.initialState)]
        m2 == [withCopyOf(m1, m1.initialState) EXCEPT !.prevState = copyOf(m1, m1.initialState),
                                                     !.undoStack = <<>>, !.redoStack = <<>>]
        m3 == applyMiddlewares(m2, prev, m2.state)
    IN persistStateToLocalStorage(notifyListeners(m3))

\* resetState that goes back to the previous state
resetStateToPrevState(m) ==
    LET prev == copyOf(m, m.state)
        m0 == withCopyOf(m, m.state)
        m1 == [withCopyOf(m0, m0.prevState) EXCEPT !.state = copyOf(m0, m0.prevState)]
        m2 == [withCopyOf(m1, m1.initialState) EXCEPT !.prevState = copyOf(m1, m1.initialState)]
        m3 == applyMiddlewares(m2, prev, m2.state)
    IN persistStateToLocalStorage(notifyListeners(m3))

resetState(m) ==
    LET prev == copyOf(m, m.state)
        m0 == withCopyOf(m, m.state)
        m1 == [withCopyOf(m0, m0.initialState) EXCEPT !.state = copyOf(m0, m0.initialState)]
        m2 == [withCopyOf(m1, m1.initialState) EXCEPT !.prevState = copyOf(m1, m1.initialState)]
        m3 == applyMiddlewares(m2, prev, m2.state)
    IN persistStateToLocalStorage(notifyListeners(m3))

\* undo() that drops the outgoing state instead of pushing it onto the redo stack
undoWithoutRedoPush(m) ==
    IF Len(m.undoStack) > 0
    THEN LET prev == m.undoStack[Len(m.undoStack)]
             m1 == [m EXCEPT !.undoStack = SubSeq(@, 1, Len(@) - 1)]
             m3 == [m1 EXCEPT !.state = prev]
         IN persistStateToLocalStorage(notifyListeners(m3))
    ELSE m

\* undo that runs the middleware pipeline before it moves the snapshot
undoThroughMiddlewares(m) ==
    IF Len(m.undoStack) > 0
    THEN LET prev == m.undoStack[Len(m.undoStack)]
             m0 == applyMiddlewares(m, m.state, prev)
             m1 == [m0 EXCEPT !.undoStack = SubSeq(@, 1, Len(@) - 1)]
             m2 == [withCopyOf(m1, m1.state) EXCEPT !.redoStack = Append(@, copyOf(m1, m1.state))]
             m3 == [m2 EXCEPT !.state = prev]
         IN persistStateToLocalStorage(notifyListeners(m3))
    ELSE m

undo(m) ==
    IF Len(m.undoStack) > 0
    THEN LET prev == m.undoStack[Len(m.undoStack)]
             m1 == [m EXCEPT !.undoStack = SubSeq(@, 1, Len(@) - 1)]
             m2 == [withCopyOf(m1, m1.state) EXCEPT !.redoStack = Append(@, copyOf(m1, m1.state))]
             m3 == [m2 EXCEPT !.state = prev]
         IN persistStateToLocalStorage(notifyListeners(m3))
    ELSE m

\* redo that notifies also when the redo stack is empty
redoAlwaysNotifies(m) ==
    IF Len(m.redoStack) > 0
    THEN LET next == m.redoStack[Len(m.redoStack)]
             m1 == [m EXCEPT !.redoStack = SubSeq(@, 1, Len(@) - 1)]
             m2 == [withCopyOf(m1, m1.state) EXCEPT !.undoStack = Append(@, copyOf(m1, m1.state))]
             m3 == [m2 EXCEPT !.state = next]
         IN persistStateToLocalStorage(notifyListeners(m3))
    ELSE persistStateToLocalStorage(notifyListeners(m))

redo(m) ==
    IF Len(m.redoStack) > 0
    THEN LET next == m.redoStack[Len(m.redoStack)]
             m1 == [m EXCEPT !.redoStack = SubSeq(@, 1, Len(@) - 1)]
             m2 == [withCopyOf(m1, m1.state) EXCEPT !.undoStack = Append(@, copyOf(m1, m1.state))]
             m3 == [m2 EXCEPT !.state = next]
         IN persistStateToLocalStorage(notifyListeners(m3))
    ELSE m

mergeState(m, partialState) ==
    LET nextState == IF m.deepStateComparison
                     THEN JSONparse(m.heap,
                             JSONstringify(m.heap, spread2(m.state, partialState)))
                     ELSE spread2(m.state, partialState)
        m0 == withCopyOf(m, spread2(m.state, partialState))
        m1 == applyMiddlewares(m0, m0.prevState, nextState)
        m2 == [withCopyOf(m1, m1.state) EXCEPT !.prevState = copyOf(m1, m1.state)]
        m3 == [m2 EXCEPT !.state = nextState]
    IN persistStateToLocalStorage(notifyListeners(m3))

\* patchState that commits the partial state alone instead of overlaying it
patchStateReplaces(m, partialState) ==
    LET nextState == copyOf(m, partialState)
        m0 == withCopyOf(m, partialState)
        m1 == applyMiddlewares(m0, m0.prevState, nextState)
        m2 == [withCopyOf(m1, m1.state) EXCEPT !.prevState = copyOf(m1, m1.state)]
        m3 == [m2 EXCEPT !.state = nextState]
    IN persistStateToLocalStorage(notifyListeners(m3))

patchState(m, partialState) ==
    LET nextState == IF m.deepStateComparison
                     THEN JSONparse(m.heap,
                             JSONstringify(m.heap, spread2(m.state, partialState)))
                     ELSE spread2(m.state, partialState)
        m0 == withCopyOf(m, spread2(m.state, partialState))
        m1 == applyMiddlewares(m0, m0.prevState, nextState)
        m2 == [withCopyOf(m1, m1.state) EXCEPT !.prevState = copyOf(m1, m1.state)]
        m3 == [m2 EXCEPT !.state = nextState]
    IN persistStateToLocalStorage(notifyListeners(m3))

\* triggerEvent that runs a whole notification pass after the callbacks
triggerEventThenNotify(m, eventName, eventData) ==
    LET i == eventIndex(m, eventName)
    IN IF i # 0
       THEN notifyListeners(
               forEachCallback(m, eventName, m.eventListeners[i].callbacks, eventData))
       ELSE m

triggerEvent(m, eventName, eventData) ==
    LET i == eventIndex(m, eventName)
    IN IF i # 0
       THEN forEachCallback(m, eventName, m.eventListeners[i].callbacks, eventData)
       ELSE m

\* startBatchUpdate that keeps the partials queued so far
startBatchUpdateKeepingQueue(m) ==
    [m EXCEPT !.batchUpdatePending = TRUE]

startBatchUpdate(m) ==
    [m EXCEPT !.batchUpdatePending = TRUE, !.batchUpdateQueue = <<>>]

\* endBatchUpdate that folds the queue onto the current state
endBatchUpdateOntoState(m) ==
    LET m1 == [m EXCEPT !.batchUpdatePending = FALSE]
    IN IF Len(m1.batchUpdateQueue) > 0
       THEN LET nextState == objectAssign(m1.state, m1.batchUpdateQueue)
                m2 == [m1 EXCEPT !.batchUpdateQueue = <<>>]
            IN setState(m2, nextState, TRUE, FALSE)
       ELSE m1

endBatchUpdate(m) ==
    LET m1 == [m EXCEPT !.batchUpdatePending = FALSE]
    IN IF Len(m1.batchUpdateQueue) > 0
       THEN LET nextState == objectAssign(EmptyObj, m1.batchUpdateQueue)
                m2 == [m1 EXCEPT !.batchUpdateQueue = <<>>]
            IN setState(m2, nextState, TRUE, FALSE)
       ELSE m1

\* queueBatchUpdate that, outside a batch, commits the overlay through setState
queueBatchUpdateThroughSetState(m, partialState) ==
    IF m.batchUpdatePending
    THEN [m EXCEPT !.batchUpdateQueue = Append(@, partialState)]
    ELSE setState(m, spread2(m.state, partialState), TRUE, FALSE)

queueBatchUpdate(m, partialState) ==
    IF m.batchUpdatePending
    THEN [m EXCEPT !.batchUpdateQueue = Append(@, partialState)]
    ELSE mergeState(m, partialState)

enableDeepStateComparison(m) == [m EXCEPT !.deepStateComparison = TRUE]

disableDeepStateComparison(m) == [m EXCEPT !.deepStateComparison = FALSE]

initializeStateFromLocalStorage(m) ==
    IF m.localStorage.defined
    THEN IF m.localStorage.item # <<>>
         THEN LET storedState == Head(m.localStorage.item)
                  m1 == [m EXCEPT !.state = JSONparse(m.heap, storedState),
                                  !.heap = JSONparsed(@, storedState)]
              IN [m1 EXCEPT !.prevState = JSONparse(m1.heap, storedState),
                            !.heap = JSONparsed(@, storedState)]
         ELSE m
    ELSE m

setErrorHandler(m, handler) == [m EXCEPT !.errorHandler = handler]

\* clearHistory that empties the undo stack only
clearHistoryOfUndo(m) == [m EXCEPT !.undoStack = <<>>]

clearHistory(m) == [m EXCEPT !.undoStack = <<>>, !.redoStack = <<>>]

\* eventName = NULL stands for a call without argument
removeAllEventListeners(m, eventName) ==
    IF eventName # NULL
    THEN IF eventIndex(m, eventName) = 0
         THEN [m EXCEPT !.eventListeners =
                  Append(@, [name |-> eventName, callbacks |-> <<>>])]
         ELSE [m EXCEPT !.eventListeners[eventIndex(m, eventName)].callbacks = <<>>]
    ELSE [m EXCEPT !.eventListeners = <<>>]

removeAllMiddlewares(m) == [m EXCEPT !.middlewares = <<>>]

\* index counts from 0 as in the code
enableMiddleware(m, index) ==
    IF index + 1 \in 1..Len(m.middlewares)
    THEN [m EXCEPT !.middlewares[index + 1].enabled = TRUE]
    ELSE m

disableMiddleware(m, index) ==
    IF index + 1 \in 1..Len(m.middlewares)
    THEN [m EXCEPT !.middlewares[index + 1].enabled = FALSE]
    ELSE m

\* new StateManager(initial) on a host whose localStorage is ls
constructor(initial, ls) ==
    initializeStateFromLocalStorage(
        [state |-> initial, initialState |-> spread(initial),
         listeners |-> <<>>, middlewares |-> <<>>, eventListeners |-> <<>>,
         undoStack |-> <<>>, redoStack |-> <<>>, prevState |-> spread(initial),
         debounceTimeout |-> <<>>, batchUpdatePending |-> FALSE,
         batchUpdateQueue |-> <<>>, deepStateComparison |-> FALSE,
         errorHandler |-> NULL, localStorage |-> ls,
         heap |-> <<>>, returned |-> <<>>, calls |-> <<>>, thrown |-> NoError])

-----------------------------------------------------------------------------
(* Commits in flight.  An async method runs until an await suspends it; the *)
(* rest of it runs later, as a microtask of the event loop, and between the *)
(* two the application and other commits run.  A commit is suspended at     *)
(* `await middleware(prevState, nextState)`, once for each enabled          *)
(* middleware that does not throw when called, and at                       *)
(* `await this.applyMiddlewares(...)`.                                      *)

\* no commit in the slot
NoCommit ==
    [name |-> "", candidate |-> EmptyObj, nextState |-> EmptyObj,
     addToUndoStack |-> FALSE, prev |-> EmptyObj, todo |-> <<>>, awaiting |-> "",
     isState |-> FALSE]

\* a commit of method name: candidate is the value of nextState when it was
\* computed, nextState the object, prev the first argument of applyMiddlewares,
\* todo the enabled middleware not yet called, awaiting the middleware whose
\* promise the commit waits for, isState whether nextState is the object
\* this.state refers to
Commit(name, nextState, addToUndoStack, prev, todo, isState) ==
    [name |-> name, candidate |-> nextState, nextState |-> nextState,
     addToUndoStack |-> addToUndoStack, prev |-> prev, todo |-> todo,
     awaiting |-> "", isState |-> isState]

Suspended(m, c) == [m |-> m, commit |-> c]

\* nextState.a = 9, the assignment of "m3"
assigned(nextState) == spread2(nextState, [a |-> 9])

\* const enabledMiddlewares = this.middlewares.filter(...).map(...)
enabledMiddlewares(m) ==
    LET enabled == SelectSeq(m.middlewares, LAMBDA e : e.enabled)
    IN [i \in 1..Len(enabled) |-> enabled[i].middleware]

\* the for loop of applyMiddlewares from the next middleware of commit c up to
\* the await that suspends it: a middleware that throws when called is caught
\* at once and the loop goes on; after the last one the commit waits for
\* applyMiddlewares to return
RECURSIVE callMiddlewares(_, _)
callMiddlewares(m, c) ==
    IF c.todo = <<>> THEN Suspended(m, [c EXCEPT !.awaiting = ""])
    ELSE LET middleware == Head(c.todo)
             called == [m EXCEPT !.calls =
                           Append(@, Call("middleware", middleware, "",
                                          <<c.prev, c.nextState>>))]
             handed == IF middleware \in MutatingMiddlewares
                       THEN assigned(c.nextState)
                       ELSE c.nextState
             touched == IF c.isState THEN [called EXCEPT !.state = handed] ELSE called
             rest == [c EXCEPT !.todo = Tail(@), !.nextState = handed]
         IN IF middleware \in ThrowingMiddlewares
            THEN callMiddlewares(handleError(touched, middleware), rest)
            ELSE Suspended(touched, [rest EXCEPT !.awaiting = middleware])

\* setState(newState, addToUndoStack) up to its first suspension
beginSetState(m, name, newState, addToUndoStack) ==
    LET nextState == copyOf(m, newState)
        m0 == withCopyOf(m, newState)
    IN callMiddlewares(m0, Commit(name, nextState, addToUndoStack, m0.prevState,
                                  enabledMiddlewares(m0), FALSE))

\* mergeState that overlays the partial state on this.prevState
beginMergeStateOntoPrevState(m, name, partialState) ==
    LET nextState == copyOf(m, spread2(m.prevState, partialState))
        m0 == withCopyOf(m, spread2(m.prevState, partialState))
    IN callMiddlewares(m0, Commit(name, nextState, FALSE, m0.prevState,
                                  enabledMiddlewares(m0), FALSE))

\* mergeState(partialState) and patchState(partialState) up to their first
\* suspension
beginMergeState(m, name, partialState) ==
    LET nextState == copyOf(m, spread2(m.state, partialState))
        m0 == withCopyOf(m, spread2(m.state, partialState))
    IN callMiddlewares(m0, Commit(name, nextState, FALSE, m0.prevState,
                                  enabledMiddlewares(m0), FALSE))

\* resetState() up to its first suspension
beginResetState(m) ==
    LET prev == copyOf(m, m.state)
        m0 == withCopyOf(m, m.state)
        m1 == [withCopyOf(m0, m0.initialState) EXCEPT !.state = copyOf(m0, m0.initialState)]
        m2 == [withCopyOf(m1, m1.initialState) EXCEPT !.prevState = copyOf(m1, m1.initialState)]
    IN callMiddlewares(m2, Commit("resetState", m2.state, FALSE, prev,
                                  enabledMiddlewares(m2), TRUE))

\* endBatchUpdate() with a queue that is not empty, up to its first suspension
beginEndBatchUpdate(m) ==
    LET m1 == [m EXCEPT !.batchUpdatePending = FALSE]
        nextState == objectAssign(EmptyObj, m1.batchUpdateQueue)
        m2 == [m1 EXCEPT !.batchUpdateQueue = <<>>]
    IN beginSetState(m2, "endBatchUpdate", nextState, TRUE)

\* the catch of applyMiddlewares when the promise commit c waited for has
\* rejected, and the loop from there
resumeMiddlewares(m, c) ==
    IF c.awaiting \in RejectingMiddlewares
    THEN callMiddlewares(handleError(m, c.awaiting), c)
    ELSE callMiddlewares(m, c)

\* the statements after `await this.applyMiddlewares(...)`: of resetState the
\* notification and the storage write, of the other commits also the history
\* push, the copy into prevState and the swap
complete(m, c) ==
    IF c.name = "resetState"
    THEN persistStateToLocalStorage(notifyListeners(m))
    ELSE Then(IF c.addToUndoStack
              THEN [withCopyOf(m, m.state) EXCEPT
                       !.undoStack = Append(@, copyOf(m, m.state)),
                       !.redoStack = <<>>]
              ELSE m, LAMBDA m2 :
         Then([withCopyOf(m2, m2.state) EXCEPT !.prevState = copyOf(m2, m2.state)],
              LAMBDA m3 :
         Then([m3 EXCEPT !.state = c.nextState], LAMBDA m4 :
         Then(notifyListeners(m4), LAMBDA m5 :
         persistStateToLocalStorage(m5)))))

-----------------------------------------------------------------------------
(* The file system: fs.writeFile, fs.readFile, fs.copyFile, fs.unlink,      *)
(* fs.truncate, fs.access, fs.rename, fs.appendFile, fs.stat.  A call that  *)
(* is refused before it touches a file (ENOENT, EACCES) leaves the files as *)
(* they were.  A call that runs out of space (ENOSPC) rejects after it has  *)
(* opened its file: fs.writeFile opens with O_TRUNC and then writes, so the *)
(* file is left empty; fs.copyFile removes the destination it could not     *)
(* fill.                                                                    *)

\* The text of a file: a JSON text, held as its set of members and its
\* indentation; "[object Object]"; or the empty text
JSONtext(members, spaces) == [fmt |-> "json", members |-> members, spaces |-> spaces]
ObjectObject == [fmt |-> "[object Object]", members |-> {}, spaces |-> 0]
EmptyText == [fmt |-> "", members |-> {}, spaces |-> 0]

NoFile == [exists |-> FALSE, content |-> EmptyText, readOnly |-> FALSE]

\* no file exists
EmptyDisk == [path \in Paths |-> NoFile]

fulfilled(fs) == [ok |-> TRUE, files |-> fs]
rejected(fs) == [ok |-> FALSE, files |-> fs]

\* a text that is neither empty, nor JSON, nor "[object Object]"
OtherText == [fmt |-> "other", members |-> {}, spaces |-> 0]

\* the text is the empty text
isEmptyText(text) == text.fmt = ""

\* text followed by more: JSON.parse accepts no text that goes on after its
\* value, and "[object Object]" followed by more is another text
concat(text, more) ==
    IF isEmptyText(more) THEN text
    ELSE IF isEmptyText(text) THEN more
    ELSE OtherText

\* the number of characters of a text: "{}" has two, a member adds some,
\* "[object Object]" has fifteen
lengthOf(text) ==
    CASE text.fmt = "" -> 0
      [] text.fmt = "json" -> 2 + 4 * Cardinality(text.members)
      [] text.fmt = "[object Object]" -> 15
      [] OTHER -> 1

\* ENOENT without the directory, EACCES on a read-only file, ENOSPC with no
\* space left after the file was opened and truncated
writeFile(fs, path, data) ==
    IF ~dirExists(path) \/ (fs[path].exists /\ fs[path].readOnly)
    THEN rejected(fs)
    ELSE IF diskFull /\ ~isEmptyText(data)
    THEN rejected([fs EXCEPT ![path] = [exists |-> TRUE, content |-> EmptyText,
                                       readOnly |-> FALSE]])
    ELSE fulfilled([fs EXCEPT ![path] = [exists |-> TRUE, content |-> data,
                                        readOnly |-> FALSE]])

\* ENOENT without the source, or without the directory of the destination,
\* EACCES on a read-only destination, ENOSPC with no space left
copyFile(fs, src, dest) ==
    IF ~fs[src].exists \/ ~dirExists(dest) \/ (fs[dest].exists /\ fs[dest].readOnly)
    THEN rejected(fs)
    ELSE IF diskFull /\ ~isEmptyText(fs[src].content)
    THEN rejected([fs EXCEPT ![dest] = NoFile])
    ELSE fulfilled([fs EXCEPT ![dest] = [exists |-> TRUE, content |-> fs[src].content,
                                        readOnly |-> FALSE]])

unlink(fs, path) ==
    IF ~fs[path].exists THEN rejected(fs)
    ELSE fulfilled([fs EXCEPT ![path] = NoFile])

truncate(fs, path) ==
    IF ~fs[path].exists \/ fs[path].readOnly THEN rejected(fs)
    ELSE fulfilled([fs EXCEPT ![path].content = EmptyText])

access(fs, path) == fs[path].exists

\* ENOENT without the old file or without the directory of the new path.  The
\* new path takes the file, whatever it held; renaming a file to its own path
\* succeeds and does nothing
rename(fs, oldPath, newPath) ==
    IF ~fs[oldPath].exists \/ ~dirExists(newPath) THEN rejected(fs)
    ELSE IF oldPath = newPath THEN fulfilled(fs)
    ELSE fulfilled([fs EXCEPT ![newPath] = fs[oldPath], ![oldPath] = NoFile])

\* fs.appendFile creates the file it does not find.  ENOENT without the
\* directory, EACCES on a read-only file, ENOSPC with no space left
appendFile(fs, path, data) ==
    IF ~dirExists(path) \/ (fs[path].exists /\ fs[path].readOnly)
    THEN rejected(fs)
    ELSE IF diskFull /\ ~isEmptyText(data)
    THEN rejected([fs EXCEPT ![path].exists = TRUE])
    ELSE fulfilled([fs EXCEPT ![path] = [exists |-> TRUE,
                                        content |-> concat(fs[path].content, data),
                                        readOnly |-> FALSE]])

\* the size fs.stat reports; ENOENT without the file
stat(fs, path) ==
    IF fs[path].exists THEN [ok |-> TRUE, size |-> lengthOf(fs[path].content)]
    ELSE [ok |-> FALSE, size |-> 0]

-----------------------------------------------------------------------------
(* Methods of PersistenceMiddleware.  Each maps the object pm and the files *)
(* fs to the object, the files and the value the method resolves with.      *)

\* the values a method resolves with
Boolean(b) == [type |-> "boolean", flag |-> b, value |-> EmptyObj, text |-> EmptyText]
Null == [type |-> "null", flag |-> FALSE, value |-> EmptyObj, text |-> EmptyText]
Object(o) == [type |-> "object", flag |-> FALSE, value |-> o, text |-> EmptyText]
String(s) == [type |-> "string", flag |-> FALSE, value |-> EmptyObj, text |-> s]
NotCalled == [type |-> "undefined", flag |-> FALSE, value |-> EmptyObj, text |-> EmptyText]

Resolves(pm, fs, result) == [pm |-> pm, files |-> fs, result |-> result]

\* new PersistenceMiddleware(filePath)
PersistenceMiddleware(filePath) ==
    [filePath |-> filePath,
     options |-> [spaces |-> 2, fileType |-> "json", version |-> 1]]

\* JSON.stringify throws a TypeError on a circular object
isCircular(o) == \E k \in DOMAIN o : o[k] = circular

\* saveState that writes into the text the file already holds
saveStateIntoOldText(pm, fs, theState) ==
    IF pm.options.fileType = "json" /\ isCircular(theState)
    THEN Resolves(pm, fs, Boolean(FALSE))
    ELSE LET serializedState ==
                 IF pm.options.fileType = "json"
                 THEN JSONtext(JSONstringify(<<>>, theState) \cup
                                  fs[pm.filePath].content.members, pm.options.spaces)
                 ELSE ObjectObject
             written == writeFile(fs, pm.filePath, serializedState)
         IN Resolves(pm, written.files, Boolean(written.ok))

saveState(pm, fs, theState) ==
    IF pm.options.fileType = "json" /\ isCircular(theState)
    THEN Resolves(pm, fs, Boolean(FALSE))
    ELSE LET serializedState ==
                 IF pm.options.fileType = "json"
                 THEN JSONtext(JSONstringify(<<>>, theState), pm.options.spaces)
                 ELSE ObjectObject
             written == writeFile(fs, pm.filePath, serializedState)
         IN Resolves(pm, written.files, Boolean(written.ok))

\* JSON.parse throws a SyntaxError on a text that is not JSON
parseFileContent(pm, content) ==
    IF pm.options.fileType = "json"
    THEN IF content.fmt = "json" THEN Object(JSONparse(<<>>, content.members)) ELSE Null
    ELSE String(content)

loadState(pm, fs) ==
    IF fs[pm.filePath].exists
    THEN Resolves(pm, fs, parseFileContent(pm, fs[pm.filePath].content))
    ELSE Resolves(pm, fs, Null)

deleteFile(pm, fs) ==
    LET unlinked == unlink(fs, pm.filePath)
    IN Resolves(pm, unlinked.files, Boolean(unlinked.ok))

setFileType(pm, fs, fileType) ==
    Resolves([pm EXCEPT !.options.fileType = fileType], fs, NotCalled)

setFilePath(pm, fs, filePath) ==
    Resolves([pm EXCEPT !.filePath = filePath], fs, NotCalled)

fileExists(pm, fs, filePath) == access(fs, filePath)

backupState(pm, fs, theState) ==
    LET backupPath == backupPathOf(pm.filePath)
        saved == saveState(pm, fs, theState)
        copied == copyFile(saved.files, pm.filePath, backupPath)
    IN Resolves(pm, copied.files, Boolean(copied.ok))

restoreFromBackup(pm, fs) ==
    LET backupPath == backupPathOf(pm.filePath)
        copied == copyFile(fs, backupPath, pm.filePath)
    IN IF fileExists(pm, fs, backupPath)
       THEN IF copied.ok THEN loadState(pm, copied.files)
            ELSE Resolves(pm, fs, Null)
       ELSE Resolves(pm, fs, Null)

truncateFile(pm, fs) ==
    LET truncated == truncate(fs, pm.filePath)
    IN Resolves(pm, truncated.files, Boolean(truncated.ok))

\* renameFile that records the new path whether or not the file was renamed
renameFileRecordingAlways(pm, fs, newFilePath) ==
    LET renamed == rename(fs, pm.filePath, newFilePath)
    IN Resolves([pm EXCEPT !.filePath = newFilePath], renamed.files,
                Boolean(renamed.ok))

renameFile(pm, fs, newFilePath) ==
    LET renamed == rename(fs, pm.filePath, newFilePath)
    IN IF renamed.ok
       THEN Resolves([pm EXCEPT !.filePath = newFilePath], renamed.files, Boolean(TRUE))
       ELSE Resolves(pm, fs, Boolean(FALSE))

\* of the object getFileInfo returns, the size, the path and the options
getFileInfo(pm, fs) ==
    LET stats == stat(fs, pm.filePath)
    IN IF stats.ok
       THEN Resolves(pm, fs, Object([size |-> stats.size, path |-> pm.filePath,
                                     options |-> pm.options]))
       ELSE Resolves(pm, fs, Null)

appendToFile(pm, fs, content) ==
    LET appended == appendFile(fs, pm.filePath, content)
    IN Resolves(pm, appended.files, Boolean(appended.ok))

\* String.prototype.substring: both indices are clamped to the text and
\* swapped when start is the larger.  A part of a text that is not the whole
\* text is another text
substring(text, start, end) ==
    LET clamp(i) == IF i < 0 THEN 0 ELSE IF i > lengthOf(text) THEN lengthOf(text) ELSE i
        from == IF clamp(start) <= clamp(end) THEN clamp(start) ELSE clamp(end)
        to == IF clamp(start) <= clamp(end) THEN clamp(end) ELSE clamp(start)
    IN IF from = to THEN EmptyText
       ELSE IF from = 0 /\ to = lengthOf(text) THEN text
       ELSE OtherText

readFileChunk(pm, fs, start, end) ==
    IF fs[pm.filePath].exists
    THEN Resolves(pm, fs, String(substring(fs[pm.filePath].content, start, end)))
    ELSE Resolves(pm, fs, Null)

writeFileChunk(pm, fs, content, position) ==
    IF fs[pm.filePath].exists
    THEN LET fileContent == fs[pm.filePath].content
             newContent ==
                 IF isEmptyText(content) THEN fileContent
                 ELSE concat(concat(substring(fileContent, 0, position), content),
                             substring(fileContent, position, lengthOf(fileContent)))
             written == writeFile(fs, pm.filePath, newContent)
         IN Resolves(pm, written.files, Boolean(written.ok))
    ELSE Resolves(pm, fs, Boolean(FALSE))

\* JSON.stringify and JSON.parse of its text: only the first can throw
validateState(pm, theState) == ~isCircular(theState)

saveStateWithValidation(pm, fs, theState) ==
    IF validateState(pm, theState)
    THEN saveState(pm, fs, theState)
    ELSE Resolves(pm, fs, Boolean(FALSE))

-----------------------------------------------------------------------------
(* Initial states: the manager right after construction *)

\* a host without localStorage (Node), as in the test suite
NodeHost == [defined |-> FALSE, item |-> <<>>, full |-> FALSE]

\* browser hosts: localStorage holds nothing under the key, or a stored snapshot
BrowserHosts ==
    {[defined |-> TRUE, item |-> <<>>, full |-> FALSE]}
    \cup {[defined |-> TRUE, item |-> <<JSONstringify(<<>>, s)>>, full |-> FALSE] :
              s \in StoredStates}

\* browser hosts whose storage takes no more writes
FullHosts == {[h EXCEPT !.full = TRUE] : h \in BrowserHosts}

\* sizes before an operation, kept with the record of the operation
Before == [undoSize |-> Len(undoStack), redoSize |-> Len(redoStack),
           queueSize |-> Len(batchUpdateQueue), burst |-> burst.n]

NoBurst == [n |-> 0, newState |-> EmptyObj, addToUndoStack |-> FALSE]

NoRoundTrip ==
    [stage |-> "none", P |-> EmptyObj, S1 |-> EmptyObj, undoSize |-> 0, redoSize |-> 0]

\* new StateManager(initial) for some initial of initials on some host of hosts
Managed(initials, hosts) ==
    \E initial \in initials, ls \in hosts :
        /\ Is(constructor(initial, ls))
        /\ op = [name |-> "constructor", args |-> <<initial>>,
                 before |-> [undoSize |-> 0, redoSize |-> 0, queueSize |-> 0,
                             burst |-> 0]]
        /\ detachers = {}
        /\ rt = NoRoundTrip
        /\ burst = NoBurst
        /\ born = [initial |-> initial, state |-> getState(constructor(initial, ls))]
        /\ held = [o \in Origins |-> <<>>]
        /\ inFlight = [slot \in Slots |-> NoCommit]
        /\ microtasks = <<>>

\* new PersistenceMiddleware(filePath) on a host whose files are disk
Persisting(filePath, disk) ==
    /\ persistence = PersistenceMiddleware(filePath)
    /\ files = disk
    /\ resolved = NotCalled
    /\ backedUp = <<>>
    /\ diskFull = FALSE

\* a manager, and a persistence object the application does not use
Constructed(initials, hosts) ==
    /\ Managed(initials, hosts)
    /\ Persisting(<<"state.json">>, EmptyDisk)

\* new StateManager() on Node, as in the test suite
Init == Constructed({EmptyObj}, {NodeHost})

-----------------------------------------------------------------------------
(* Public operations *)

\* the round trip tracker after operation name has produced m
RoundTrip(name, args, m) ==
    CASE name = "setState" /\ args[2] /\ ~args[3] ->
            [stage |-> "committed", P |-> getState(This), S1 |-> args[1],
             undoSize |-> Len(m.undoStack), redoSize |-> Len(m.redoStack)]
      [] name = "undo" /\ rt.stage = "committed" -> [rt EXCEPT !.stage = "undone"]
      [] name = "redo" /\ rt.stage = "undone" -> [rt EXCEPT !.stage = "redone"]
      [] OTHER -> NoRoundTrip

\* the cells of the set cells in ascending order, after the cells of seen
RECURSIVE inOrder(_, _)
inOrder(seen, cells) ==
    IF cells \subseteq {seen[i] : i \in 1..Len(seen)} THEN seen
    ELSE LET fresh == cells \ {seen[i] : i \in 1..Len(seen)}
             c == CHOOSE x \in fresh : \A y \in fresh : x <= y
         IN inOrder(Append(seen, c), cells)

\* the cells the objects of the sequence objects refer to, each once, in the
\* order of their first occurrence, after the cells of seen
RECURSIVE reached(_, _)
reached(seen, objects) ==
    IF objects = <<>> THEN seen
    ELSE reached(inOrder(seen, cellsOf(Head(objects))), Tail(objects))

\* the cells of the nested objects the manager m refers to, in the order in
\* which the garbage collector meets them
cellsOfManager(m) ==
    reached(<<>>,
        <<m.state, m.prevState, m.initialState>> \o m.undoStack \o m.redoStack
        \o m.batchUpdateQueue
        \o [i \in 1..Len(m.debounceTimeout) |-> m.debounceTimeout[i].nextState])

\* what the application holds once operation name has produced m, when it
\* keeps the nested objects kept of the argument it passed: for each way of
\* getting one, the objects it got last
holding(name, m, kept) ==
    LET got(cells, o) ==
            IF cells # {} THEN <<[cells |-> cells, deep |-> deepStateComparison]>>
            ELSE held[o]
        notified == SelectSeq(m.calls, LAMBDA c : c.fn = "listener")
    IN [o \in Origins |->
          CASE o = "argument" -> got(kept, o)
            [] o = "getState" ->
                  got(IF name = "getState" THEN cellsOf(m.returned[1]) ELSE {}, o)
            [] o = "listener" ->
                  got(IF notified # <<>>
                      THEN cellsOf(notified[Len(notified)].args[1]) ELSE {}, o)]

\* the number of cell c once the garbage collector has kept the cells of the
\* sequence live, in that order; a cell that is not kept has number 0
moved(c, live) ==
    IF \E i \in 1..Len(live) : live[i] = c
    THEN CHOOSE i \in 1..Len(live) : live[i] = c
    ELSE 0

movedValue(v, live) == IF isObject(v) THEN -moved(-v, live) ELSE v

movedObject(o, live) == [k \in DOMAIN o |-> movedValue(o[k], live)]

\* the manager m after the garbage collector has run: the cells in live stay
collected(m, live) ==
    IF m.heap = <<>> THEN m
    ELSE [m EXCEPT
            !.heap = [i \in 1..Len(live) |-> m.heap[live[i]]],
            !.state = movedObject(@, live),
            !.prevState = movedObject(@, live),
            !.initialState = movedObject(@, live),
            !.undoStack = [i \in 1..Len(@) |-> movedObject(@[i], live)],
            !.redoStack = [i \in 1..Len(@) |-> movedObject(@[i], live)],
            !.batchUpdateQueue = [i \in 1..Len(@) |-> movedObject(@[i], live)],
            !.debounceTimeout =
                [i \in 1..Len(@) |-> [@[i] EXCEPT !.nextState = movedObject(@, live)]],
            !.returned = [i \in 1..Len(@) |-> movedObject(@[i], live)],
            !.calls = [i \in 1..Len(@) |->
                CASE @[i].fn = "listener" ->
                        [@[i] EXCEPT !.args = <<movedObject(@[1], live)>>]
                  [] @[i].fn = "middleware" ->
                        [@[i] EXCEPT !.args = <<movedObject(@[1], live),
                                                movedObject(@[2], live)>>]
                  [] @[i].fn = "eventListener" ->
                        [@[i] EXCEPT !.args = <<movedValue(@[1], live)>>]
                  [] OTHER -> @[i]]]

\* operation name with arguments args turns the manager into m, and the
\* application keeps the nested objects kept of the arguments
Performs(name, args, m, kept) ==
    \E raw \in {m} :
    \E handles \in {holding(name, raw, kept)} :
    \E live \in {IF raw.heap = <<>> THEN <<>>
                  ELSE LET kinds == <<"argument", "getState", "listener">>
                           got(i) == IF handles[kinds[i]] = <<>> THEN {}
                                     ELSE handles[kinds[i]][1].cells
                       IN inOrder(inOrder(inOrder(cellsOfManager(raw),
                                                  got(1)), got(2)), got(3))} :
    \E after \in {collected(raw, live)} :
    /\ Becomes(after)
    /\ held' = [o \in Origins |->
                  IF handles[o] = <<>> THEN <<>>
                  ELSE <<[handles[o][1] EXCEPT
                            !.cells = {moved(c, live) : c \in handles[o][1].cells}]>>]
    /\ op' = [name |-> name, args |-> args, before |-> Before]
    /\ rt' = RoundTrip(name, args, after)
    /\ burst' = IF name = "setState" /\ args[3]
                THEN [n |-> burst.n + 1, newState |-> args[1], addToUndoStack |-> args[2]]
                ELSE IF name = "debounceTimer" THEN NoBurst ELSE burst
    /\ UNCHANGED <<born, persistence, files, resolved, backedUp, diskFull>>

\* an operation that runs to its end without an await that suspends it
Perform(name, args, m, kept) ==
    /\ Performs(name, args, m, kept)
    /\ UNCHANGED <<inFlight, microtasks>>

\* operation name with arguments args, none of which is a nested object,
\* turns the manager into m
Do(name, args, m) == Perform(name, args, m, {})

\* 1 while a debounced commit that records history is pending
Reserved ==
    IF debounceTimeout # <<>> /\ Head(debounceTimeout).addToUndoStack THEN 1 ELSE 0

\* room for one more snapshot on the undo stack
CanRecord == Len(undoStack) + Reserved < MaxHist

InSeq(s, v) == \E i \in 1..Len(s) : s[i] = v

\* callback is registered under eventName
Registered(eventName, callback) ==
    /\ eventIndex(This, eventName) # 0
    /\ InSeq(eventListeners[eventIndex(This, eventName)].callbacks, callback)

\* the middleware functions of the entries of this.middlewares
MiddlewareFns == [i \in 1..Len(middlewares) |-> middlewares[i].middleware]

SetState(newState, addToUndoStack) ==
    /\ addToUndoStack => CanRecord
    /\ Do("setState", <<newState, addToUndoStack, FALSE>>,
          setState(This, newState, addToUndoStack, FALSE))
    /\ UNCHANGED detachers

SetStateDebounced(newState, addToUndoStack) ==
    /\ burst.n < MaxBurst
    /\ addToUndoStack => Len(undoStack) + Len(redoStack) < MaxHist
    /\ Do("setState", <<newState, addToUndoStack, TRUE>>,
          setState(This, newState, addToUndoStack, TRUE))
    /\ UNCHANGED detachers

\* the application builds { nested: { value: v } }, passes it to setState and
\* keeps it
SetStateNested(v, addToUndoStack) ==
    /\ addToUndoStack => CanRecord
    /\ LET built == [This EXCEPT !.heap = Append(@, v)]
           newState == [nested |-> -Len(built.heap)]
       IN Perform("setState", <<newState, addToUndoStack, FALSE>>,
                  setState(built, newState, addToUndoStack, FALSE), {Len(built.heap)})
    /\ UNCHANGED detachers

\* the application calls getState() and keeps the result
GetState ==
    /\ Do("getState", <<>>,
          [withCopyOf(This, state) EXCEPT !.returned = <<getState(This)>>])
    /\ UNCHANGED detachers

\* the application assigns v to the `value` of the nested objects it got by
\* way of origin and still holds
Mutate(origin, v) ==
    /\ held[origin] # <<>>
    /\ \E c \in held[origin][1].cells : heap[c] # v
    /\ Do("mutate", <<origin, v>>,
          [This EXCEPT !.heap = [c \in 1..Len(@) |->
                                   IF c \in held[origin][1].cells THEN v ELSE @[c]]])
    /\ UNCHANGED detachers

\* the delay has elapsed: the runtime runs the pending timer's closure
DebounceTimer ==
    /\ debounceTimeout # <<>>
    /\ Do("debounceTimer", <<>>, debounceTimer(This))
    /\ UNCHANGED detachers

MergeState(partialState) ==
    /\ Do("mergeState", <<partialState>>, mergeState(This, partialState))
    /\ UNCHANGED detachers

PatchState(partialState) ==
    /\ Do("patchState", <<partialState>>, patchState(This, partialState))
    /\ UNCHANGED detachers

ResetState ==
    /\ Do("resetState", <<>>, resetState(This))
    /\ UNCHANGED detachers

Undo ==
    /\ Do("undo", <<>>, undo(This))
    /\ UNCHANGED detachers

Redo ==
    /\ Do("redo", <<>>, redo(This))
    /\ UNCHANGED detachers

ClearHistory ==
    /\ Do("clearHistory", <<>>, clearHistory(This))
    /\ UNCHANGED detachers

StartBatchUpdate ==
    /\ Do("startBatchUpdate", <<>>, startBatchUpdate(This))
    /\ UNCHANGED detachers

QueueBatchUpdate(partialState) ==
    /\ Len(batchUpdateQueue) < MaxQueue
    /\ Do("queueBatchUpdate", <<partialState>>, queueBatchUpdate(This, partialState))
    /\ UNCHANGED detachers

EndBatchUpdate ==
    /\ Len(batchUpdateQueue) > 0 => CanRecord
    /\ Do("endBatchUpdate", <<>>, endBatchUpdate(This))
    /\ UNCHANGED detachers

EnableDeepStateComparison ==
    /\ Do("enableDeepStateComparison", <<>>, enableDeepStateComparison(This))
    /\ UNCHANGED detachers

DisableDeepStateComparison ==
    /\ Do("disableDeepStateComparison", <<>>, disableDeepStateComparison(This))
    /\ UNCHANGED detachers

SetErrorHandler ==
    /\ Do("setErrorHandler", <<"handler">>, setErrorHandler(This, "handler"))
    /\ UNCHANGED detachers

\* the application registers a listener that is not registered at the moment
Subscribe(listener) ==
    /\ ~InSeq(listeners, listener)
    /\ Do("subscribe", <<listener>>, subscribe(This, listener))
    /\ detachers' = detachers \cup {<<"subscribe", "", listener>>}

\* the application calls the closure subscribe(listener) returned
Unsubscribe(listener) ==
    /\ <<"subscribe", "", listener>> \in detachers
    /\ Do("unsubscribe", <<listener>>, unsubscribe(This, listener))
    /\ UNCHANGED detachers

On(eventName, callback) ==
    /\ ~Registered(eventName, callback)
    /\ Do("on", <<eventName, callback>>, on(This, eventName, callback))
    /\ detachers' = detachers \cup {<<"on", eventName, callback>>}

\* the application calls the closure on(eventName, callback) returned
Off(eventName, callback) ==
    /\ <<"on", eventName, callback>> \in detachers
    /\ Do("off", <<eventName, callback>>, off(This, eventName, callback))
    /\ UNCHANGED detachers

TriggerEvent(eventName, eventData) ==
    /\ Do("triggerEvent", <<eventName, eventData>>,
          triggerEvent(This, eventName, eventData))
    /\ UNCHANGED detachers

RemoveAllListeners ==
    /\ Do("removeAllListeners", <<>>, removeAllListeners(This))
    /\ UNCHANGED detachers

RemoveAllEventListeners(eventName) ==
    /\ Do("removeAllEventListeners", <<eventName>>,
          removeAllEventListeners(This, eventName))
    /\ UNCHANGED detachers

ApplyMiddleware(middleware) ==
    /\ ~InSeq(MiddlewareFns, middleware)
    /\ Do("applyMiddleware", <<middleware>>, applyMiddleware(This, middleware))
    /\ UNCHANGED detachers

RemoveAllMiddlewares ==
    /\ Do("removeAllMiddlewares", <<>>, removeAllMiddlewares(This))
    /\ UNCHANGED detachers

EnableMiddleware(index) ==
    /\ Do("enableMiddleware", <<index>>, enableMiddleware(This, index))
    /\ UNCHANGED detachers

DisableMiddleware(index) ==
    /\ Do("disableMiddleware", <<index>>, disableMiddleware(This, index))
    /\ UNCHANGED detachers

\* the lowest slot that holds no commit
FreeSlot ==
    CHOOSE slot \in Slots :
        /\ inFlight[slot] = NoCommit
        /\ \A other \in Slots : inFlight[other] = NoCommit => slot <= other

\* the commits in flight that will push a snapshot onto the undo stack
Recording == Cardinality({slot \in Slots : inFlight[slot].addToUndoStack})

\* Begin that drops the call when a commit is in flight
BeginUnlessBusy(name, args, r) ==
    IF \A slot \in Slots : inFlight[slot] = NoCommit
    THEN \E begun \in {r} :
         /\ Performs(name, args, begun.m, {})
         /\ inFlight' = [inFlight EXCEPT ![1] = begun.commit]
         /\ microtasks' = IF begun.commit.awaiting \in AsyncMiddlewares THEN microtasks
                          ELSE Append(microtasks, 1)
         /\ UNCHANGED detachers
    ELSE /\ Performs(name, args, This, {})
         /\ UNCHANGED <<inFlight, microtasks, detachers>>

\* the application calls the async method name without waiting for an earlier
\* commit; the method runs up to its first suspension, begun.  An await of a
\* promise that is already settled queues the continuation at once.  When the
\* method has assigned this.state, no commit in flight holds that object any
\* longer
Begin(name, args, r) ==
    \E begun \in {r} :
    /\ \E slot \in Slots : inFlight[slot] = NoCommit
    /\ Performs(name, args, begun.m, {})
    /\ inFlight' = [slot \in Slots |->
                       IF slot = FreeSlot THEN begun.commit
                       ELSE IF begun.commit.isState
                            THEN [inFlight[slot] EXCEPT !.isState = FALSE]
                            ELSE inFlight[slot]]
    /\ microtasks' = IF begun.commit.awaiting \in AsyncMiddlewares THEN microtasks
                     ELSE Append(microtasks, FreeSlot)
    /\ UNCHANGED detachers

BeginSetState(newState, addToUndoStack) ==
    /\ addToUndoStack => Len(undoStack) + Recording < MaxHist
    /\ Begin("setState", <<newState, addToUndoStack, FALSE>>,
             beginSetState(This, "setState", newState, addToUndoStack))

BeginMergeState(partialState) ==
    Begin("mergeState", <<partialState>>,
          beginMergeState(This, "mergeState", partialState))

BeginPatchState(partialState) ==
    Begin("patchState", <<partialState>>,
          beginMergeState(This, "patchState", partialState))

BeginResetState ==
    Begin("resetState", <<>>, beginResetState(This))

BeginEndBatchUpdate ==
    /\ batchUpdateQueue # <<>>
    /\ Len(undoStack) + Recording < MaxHist
    /\ Begin("endBatchUpdate", <<>>, beginEndBatchUpdate(This))

\* the event loop runs the first queued continuation: the commit goes on with
\* its middleware up to the next suspension, or, back from applyMiddlewares,
\* runs to its end
Microtask ==
    /\ microtasks # <<>>
    /\ LET slot == Head(microtasks)
           c == inFlight[slot]
       IN IF c.awaiting # ""
          THEN \E resumed \in {resumeMiddlewares(This, c)} :
               /\ Performs("microtask", <<>>, resumed.m, {})
               /\ inFlight' = [inFlight EXCEPT ![slot] = resumed.commit]
               /\ microtasks' =
                     IF resumed.commit.awaiting \in AsyncMiddlewares
                     THEN Tail(microtasks)
                     ELSE Append(Tail(microtasks), slot)
          ELSE /\ Performs("microtask", <<>>, complete(This, c), {})
               /\ inFlight' = [other \in Slots |->
                                  IF other = slot THEN NoCommit
                                  ELSE IF c.name # "resetState"
                                       THEN [inFlight[other] EXCEPT !.isState = FALSE]
                                       ELSE inFlight[other]]
               /\ microtasks' = Tail(microtasks)
    /\ UNCHANGED detachers

\* the promise of the async middleware the commit of slot waits for settles
MiddlewareSettles(slot) ==
    /\ inFlight[slot].awaiting \in AsyncMiddlewares
    /\ ~InSeq(microtasks, slot)
    /\ Performs("settled", <<>>, This, {})
    /\ microtasks' = Append(microtasks, slot)
    /\ UNCHANGED <<inFlight, detachers>>

\* the fields of the manager and what the model records about its use
managerVars ==
    <<state, initialState, prevState, listeners, middlewares, eventListeners,
      undoStack, redoStack, debounceTimeout, batchUpdatePending,
      batchUpdateQueue, deepStateComparison, errorHandler, localStorage,
      heap, returned, calls, thrown, detachers, rt, burst, born, held,
      inFlight, microtasks>>

\* the operation before this one and what it resolved with
Previously == [name |-> op.name, args |-> op.args, resolved |-> resolved]

\* the tracker of the last backup after operation name has resolved with result
Following(name, args, result) ==
    CASE name = "backupState" -> IF result = Boolean(TRUE) THEN <<args[1]>> ELSE <<>>
      [] name \in {"saveState", "loadState", "deleteFile", "truncateFile",
                   "restoreFromBackup"} -> backedUp
      [] OTHER -> <<>>

\* operation name of the persistence object with arguments args has run to r;
\* a path among the arguments is kept as the record [path |-> ...]
Serve(name, args, r) ==
    \E after \in {r} :
    /\ persistence' = after.pm
    /\ files' = after.files
    /\ resolved' = after.result
    /\ op' = [name |-> name, args |-> args, before |-> Previously]
    /\ backedUp' = Following(name, args, after.result)
    /\ UNCHANGED diskFull
    /\ UNCHANGED managerVars

SaveState(theState) ==
    Serve("saveState", <<theState>>, saveState(persistence, files, theState))

LoadState ==
    Serve("loadState", <<>>, loadState(persistence, files))

DeleteFile ==
    Serve("deleteFile", <<>>, deleteFile(persistence, files))

TruncateFile ==
    Serve("truncateFile", <<>>, truncateFile(persistence, files))

BackupState(theState) ==
    Serve("backupState", <<theState>>, backupState(persistence, files, theState))

RestoreFromBackup ==
    Serve("restoreFromBackup", <<>>, restoreFromBackup(persistence, files))

SetFileType(fileType) ==
    /\ persistence.options.fileType # fileType
    /\ Serve("setFileType", <<fileType>>, setFileType(persistence, files, fileType))

SetFilePath(filePath) ==
    /\ persistence.filePath # filePath
    /\ Serve("setFilePath", <<[path |-> filePath]>>, setFilePath(persistence, files, filePath))

RenameFile(newFilePath) ==
    Serve("renameFile", <<[path |-> newFilePath]>>, renameFile(persistence, files, newFilePath))

GetFileInfo ==
    Serve("getFileInfo", <<>>, getFileInfo(persistence, files))

AppendToFile(content) ==
    Serve("appendToFile", <<content>>, appendToFile(persistence, files, content))

ReadFileChunk(start, end) ==
    Serve("readFileChunk", <<start, end>>, readFileChunk(persistence, files, start, end))

WriteFileChunk(content, position) ==
    Serve("writeFileChunk", <<content, position>>,
          writeFileChunk(persistence, files, content, position))

SaveStateWithValidation(theState) ==
    Serve("saveStateWithValidation", <<theState>>,
          saveStateWithValidation(persistence, files, theState))

\* the device of the host runs out of space, or gets some back
FillDisk(full) ==
    /\ diskFull # full
    /\ diskFull' = full
    /\ op' = [name |-> IF full THEN "disk full" ELSE "disk freed", args |-> <<>>,
              before |-> Previously]
    /\ backedUp' = <<>>
    /\ UNCHANGED <<persistence, files, resolved>>
    /\ UNCHANGED managerVars

\* the host takes the write permission from an existing file
MakeReadOnly(path) ==
    /\ files[path].exists
    /\ ~files[path].readOnly
    /\ Serve("chmod", <<[path |-> path]>>,
             Resolves(persistence, [files EXCEPT ![path].readOnly = TRUE], NotCalled))

-----------------------------------------------------------------------------
(* Specifications.  Each one lets the application use a part of the API.    *)

\* The commit path and the history manager, with batches
Next ==
    \/ \E s \in Candidates, h \in BOOLEAN : SetState(s, h)
    \/ \E p \in Partials : MergeState(p)
    \/ \E p \in Partials : PatchState(p)
    \/ Undo
    \/ Redo
    \/ ClearHistory
    \/ StartBatchUpdate
    \/ \E p \in Partials : QueueBatchUpdate(p)
    \/ EndBatchUpdate

Spec == Init /\ [][Next]_vars

\* Batches in front of one plain listener and one middleware
NextBatch ==
    \/ \E s \in Candidates : SetState(s, TRUE)
    \/ StartBatchUpdate
    \/ \E p \in Partials : QueueBatchUpdate(p)
    \/ EndBatchUpdate
    \/ Undo
    \/ Subscribe("l2")
    \/ ApplyMiddleware("m2")

SpecBatch == Constructed({EmptyObj}, {NodeHost}) /\ [][NextBatch]_vars

\* Debounced writes in front of one plain listener and one middleware
NextDebounce ==
    \/ \E s \in Candidates, h \in BOOLEAN : SetState(s, h)
    \/ \E s \in Candidates, h \in BOOLEAN : SetStateDebounced(s, h)
    \/ DebounceTimer
    \/ Undo
    \/ Subscribe("l2")
    \/ ApplyMiddleware("m2")

\* a timer whose delay has elapsed is eventually run by the event loop
SpecDebounce ==
    /\ Constructed({EmptyObj}, {NodeHost})
    /\ [][NextDebounce]_vars
    /\ WF_vars(DebounceTimer)

\* Construction on every host, commits, history and reset
NextStorage ==
    \/ \E s \in Candidates, h \in BOOLEAN : SetState(s, h)
    \/ \E p \in Partials : MergeState(p)
    \/ ResetState
    \/ Undo
    \/ Redo
    \/ EnableDeepStateComparison
    \/ DisableDeepStateComparison

SpecStorage ==
    Constructed(InitialStates, {NodeHost} \cup BrowserHosts) /\ [][NextStorage]_vars

\* The middleware pipeline in front of one plain listener
NextMiddleware ==
    \/ \E mw \in Middlewares : ApplyMiddleware(mw)
    \/ RemoveAllMiddlewares
    \/ \E i \in 0..Cardinality(Middlewares) : EnableMiddleware(i)
    \/ \E i \in 0..Cardinality(Middlewares) : DisableMiddleware(i)
    \/ SetErrorHandler
    \/ Subscribe("l2")
    \/ \E s \in Candidates : SetState(s, FALSE)
    \/ \E p \in Partials : MergeState(p)
    \/ \E p \in Partials : PatchState(p)
    \/ ResetState

SpecMiddleware == Constructed(InitialStates, {NodeHost}) /\ [][NextMiddleware]_vars

\* Listener and event fan-out, detachment and removal
NextFanout ==
    \/ \E l \in Listeners : Subscribe(l)
    \/ \E l \in Listeners : Unsubscribe(l)
    \/ \E r \in EventRegs : On(r[1], r[2])
    \/ \E r \in EventRegs : Off(r[1], r[2])
    \/ \E e \in EventNames, d \in Payloads : TriggerEvent(e, d)
    \/ RemoveAllListeners
    \/ \E e \in EventNames \cup {NULL} : RemoveAllEventListeners(e)
    \/ SetErrorHandler
    \/ SetState([a |-> 1], TRUE)
    \/ Undo
    \/ Redo

SpecFanout == Constructed({EmptyObj}, {NodeHost}) /\ [][NextFanout]_vars

\* Event listeners in front of commits, explicit events and history
NextEvents ==
    \/ \E r \in EventRegs : On(r[1], r[2])
    \/ \E r \in EventRegs : Off(r[1], r[2])
    \/ \E e \in EventNames, d \in Payloads : TriggerEvent(e, d)
    \/ Subscribe("l2")
    \/ ApplyMiddleware("m2")
    \/ \E s \in EventStates : SetState(s, TRUE)
    \/ Undo
    \/ Redo

SpecEvents == Constructed({EmptyObj}, {NodeHost}) /\ [][NextEvents]_vars

\* The persistence object over the files of the host
NextPersistence ==
    \/ \E s \in SavedStates : SaveState(s)
    \/ LoadState
    \/ DeleteFile
    \/ TruncateFile
    \/ \E s \in SavedStates : BackupState(s)
    \/ RestoreFromBackup
    \/ \E f \in FileTypes : SetFileType(f)
    \/ \E p \in FilePaths : SetFilePath(p)
    \/ \E p \in Paths : MakeReadOnly(p)

SpecPersistence ==
    /\ Managed({EmptyObj}, {NodeHost})
    /\ Persisting(<<"state.json">>, EmptyDisk)
    /\ [][NextPersistence]_vars

\* The persistence object over files that can be renamed, appended to and
\* spliced, on a device that can run out of space
NextFiles ==
    \/ \E s \in FileStates : SaveState(s)
    \/ \E s \in FileStates : SaveStateWithValidation(s)
    \/ LoadState
    \/ \E p \in NewFilePaths : RenameFile(p)
    \/ DeleteFile
    \/ TruncateFile
    \/ GetFileInfo
    \/ \E c \in Contents : AppendToFile(c)
    \/ \E end \in Positions : ReadFileChunk(0, end)
    \/ \E c \in Contents, position \in Positions : WriteFileChunk(c, position)
    \/ \E s \in FileStates : BackupState(s)
    \/ RestoreFromBackup
    \/ \E full \in BOOLEAN : FillDisk(full)
    \/ MakeReadOnly(persistence.filePath)

SpecFiles ==
    /\ Managed({EmptyObj}, {NodeHost})
    /\ Persisting(<<"state.json">>, EmptyDisk)
    /\ [][NextFiles]_vars

\* no commit is in flight
Settled == \A slot \in Slots : inFlight[slot] = NoCommit

\* Commits seen step by step: the application issues one when the one before
\* has run to its end, in front of a plain listener and of middleware that
\* throws, assigns to its argument, or rejects later.  A commit that records
\* history starts from an empty undo stack
NextCommits ==
    \/ \E h \in BOOLEAN :
          Settled /\ (h => undoStack = <<>>) /\ BeginSetState([a |-> 1], h)
    \/ Settled /\ BeginMergeState([a |-> 2])
    \/ Settled /\ BeginPatchState([a |-> 1, b |-> 1])
    \/ Settled /\ BeginResetState
    \/ Settled /\ StartBatchUpdate
    \/ Settled /\ batchUpdatePending /\ batchUpdateQueue = <<>> /\ QueueBatchUpdate([a |-> 2])
    \/ Settled /\ undoStack = <<>> /\ BeginEndBatchUpdate
    \/ Microtask
    \/ \E slot \in Slots : MiddlewareSettles(slot)
    \/ \E middleware \in {"m1", "m3", "m4"} : Settled /\ ApplyMiddleware(middleware)
    \/ Settled /\ Subscribe("l2")

SpecCommits == Constructed({EmptyObj}, {NodeHost}) /\ [][NextCommits]_vars

\* Commits the application issues without waiting for the ones before, in
\* front of a plain listener, a middleware that returns and one that rejects
\* later.  The event loop runs every queued continuation, and the promise of
\* a middleware settles in the end
NextOverlap ==
    \/ \E s \in Candidates : BeginSetState(s, FALSE)
    \/ Microtask
    \/ \E slot \in Slots : MiddlewareSettles(slot)
    \/ \E middleware \in {"m2", "m4"} : ApplyMiddleware(middleware)
    \/ Subscribe("l2")

SpecOverlap ==
    /\ Constructed({EmptyObj}, {NodeHost})
    /\ [][NextOverlap]_vars
    /\ WF_vars(Microtask)
    /\ \A slot \in Slots : WF_vars(MiddlewareSettles(slot))

\* A setState the application does not wait for, and mergeState and patchState
\* issued while it is pending or after it has ended, in front of a middleware
\* that returns and one whose promise settles later.  A setState is issued
\* when no commit is in flight, so that it is the commit of slot 1 and every
\* commit in flight with it was issued after it
NextLostUpdate ==
    \/ \E s \in Candidates : Settled /\ BeginSetState(s, FALSE)
    \/ \E p \in Partials : BeginMergeState(p)
    \/ BeginPatchState([a |-> 2])
    \/ Microtask
    \/ \E slot \in Slots : MiddlewareSettles(slot)
    \/ \E middleware \in {"m2", "m4"} : ApplyMiddleware(middleware)

SpecLostUpdate == Constructed(InitialStates, {NodeHost}) /\ [][NextLostUpdate]_vars

\* A debounced write and, inside and outside its delay window, every other
\* operation that commits a state or changes the history
NextWindow ==
    \/ \E s \in Candidates, h \in BOOLEAN : SetStateDebounced(s, h)
    \/ DebounceTimer
    \/ \E h \in BOOLEAN : SetState([a |-> 1], h)
    \/ MergeState([a |-> 2])
    \/ PatchState([a |-> 1, b |-> 1])
    \/ Undo
    \/ Redo
    \/ ResetState
    \/ ClearHistory
    \/ StartBatchUpdate
    \/ QueueBatchUpdate([a |-> 2])
    \/ EndBatchUpdate

SpecWindow == Constructed({EmptyObj}, {NodeHost}) /\ [][NextWindow]_vars

\* Commits in front of plain listeners that change the listener list while
\* they are notified: one detaches "l2", one removes every listener, one
\* subscribes "l2".  The application writes the detaching listener once it has
\* the detach function of "l2"
NextReentrant ==
    \/ \E l \in {"l2", "l4", "l5"} : Subscribe(l)
    \/ <<"subscribe", "", "l2">> \in detachers /\ Subscribe("l3")
    \/ Unsubscribe("l2")
    \/ \E s \in Candidates : Len(listeners) < MaxListeners /\ SetState(s, FALSE)
    \/ Len(listeners) < MaxListeners /\ MergeState([a |-> 2])

SpecReentrant == Constructed({EmptyObj}, {NodeHost}) /\ [][NextReentrant]_vars

\* An open batch: partials are queued, and setState, mergeState and patchState
\* are called, between startBatchUpdate() and endBatchUpdate(), in front of
\* one plain listener; startBatchUpdate() is also called again before the
\* batch is flushed
NextOpenBatch ==
    \/ StartBatchUpdate
    \/ batchUpdatePending /\ QueueBatchUpdate([a |-> 2])
    \/ \E s \in Candidates : batchUpdatePending /\ SetState(s, FALSE)
    \/ batchUpdatePending /\ MergeState([a |-> 1, b |-> 1])
    \/ batchUpdatePending /\ PatchState([a |-> 1, b |-> 1])
    \/ EndBatchUpdate
    \/ Undo
    \/ Subscribe("l2")

SpecOpenBatch == Constructed({EmptyObj}, {NodeHost}) /\ [][NextOpenBatch]_vars

\* Commits, reset and the history manager in front of one plain listener and
\* one middleware
NextHistory ==
    \/ \E s \in Candidates, h \in BOOLEAN : SetState(s, h)
    \/ ResetState
    \/ Undo
    \/ Redo
    \/ ClearHistory
    \/ Subscribe("l2")
    \/ ApplyMiddleware("m2")

SpecHistory == Constructed({[a |-> 1]}, {NodeHost}) /\ [][NextHistory]_vars

\* Commits, history and reset on hosts with a storage, full or not
NextSnapshot ==
    \/ \E s \in Candidates, h \in BOOLEAN : SetState(s, h)
    \/ \E p \in Partials : MergeState(p)
    \/ ResetState
    \/ Undo
    \/ Redo
    \/ SetErrorHandler
    \/ Subscribe("l2")

SpecSnapshot ==
    Constructed({EmptyObj}, BrowserHosts \cup FullHosts) /\ [][NextSnapshot]_vars

\* Nested objects handed across the boundary in both copy modes
NextDeep ==
    \/ EnableDeepStateComparison
    \/ DisableDeepStateComparison
    \/ \E v \in NestedValues : SetStateNested(v, TRUE)
    \/ GetState
    \/ \E o \in Origins, v \in NestedValues : Mutate(o, v)
    \/ Subscribe("l2")
    \/ Undo
    \/ Redo

SpecDeep == Constructed({EmptyObj}, {NodeHost}) /\ [][NextDeep]_vars

-----------------------------------------------------------------------------
(* Claims *)

\* C1: undo/redo round trip.  After an awaited setState(S1) that records
\* history, issued in a state P, undo() makes getState() equal P, and redo()
\* right after that undo() makes getState() equal S1 again, with the undo and
\* redo stacks as long as they were right after the commit.
C1_UndoRedoRoundTrip ==
    /\ rt.stage = "undone" => getState(This) = rt.P
    /\ rt.stage = "redone" =>
          /\ getState(This) = rt.S1
          /\ Len(undoStack) = rt.undoSize
          /\ Len(redoStack) = rt.redoSize

\* C1 witness: a round trip has completed between two different states on top
\* of older history
C1_Witness ==
    /\ rt.stage = "redone"
    /\ op.name = "redo"
    /\ rt.P # rt.S1
    /\ Len(undoStack) = 2

\* the last operation was a completed commit that records history
RecordingCommit ==
    \/ op.name = "setState" /\ op.args[2] /\ ~op.args[3]
    \/ op.name = "endBatchUpdate" /\ op.before.queueSize > 0

\* the last operation was a completed commit that does not record history
PlainCommit ==
    \/ op.name = "setState" /\ ~op.args[2] /\ ~op.args[3]
    \/ op.name \in {"mergeState", "patchState"}
    \/ op.name = "queueBatchUpdate" /\ ~batchUpdatePending

Overlaid(old, p, new) ==
    /\ DOMAIN new = DOMAIN old \cup DOMAIN p
    /\ \A k \in DOMAIN p : new[k] = p[k]
    /\ \A k \in DOMAIN old \ DOMAIN p : new[k] = old[k]

\* C3: an awaited mergeState(p) or patchState(p) sets the state to the current
\* state overlaid with p, and from every state the two operations produce the
\* same manager: the same state and previous state, the same undo and redo
\* stacks, the same middleware calls and the same notifications.
C3_MergePatchOverlayAndAgree ==
    [][/\ op'.name \in {"mergeState", "patchState"} =>
             Overlaid(state, op'.args[1], state')
       /\ \A p \in Partials : mergeState(This, p) = patchState(This, p)]_vars

\* C3 witness: patchState has overwritten one key and preserved another, with
\* a middleware and a plain listener called
C3_Witness ==
    /\ op.name = "patchState"
    /\ op.args[1] = [a |-> 2]
    /\ prevState = [a |-> 1, b |-> 1]
    /\ state = [a |-> 2, b |-> 1]
    /\ \E i \in 1..Len(calls) : calls[i].fn = "middleware"
    /\ \E i \in 1..Len(calls) : calls[i].fn = "listener"

\* how often the last operation invoked callback id as a fn
CountCalls(fn, id) ==
    Cardinality({i \in 1..Len(calls) : calls[i].fn = fn /\ calls[i].id = id})

\* C4: debounce coalescing.  A setState call with the debounce flag has no
\* effect on the state, the history, the middleware or the listeners.  When the
\* timer fires after n >= 1 such calls, one commit happens: the state becomes
\* the argument of the last call, the undo stack grows by the outgoing state
\* exactly if the last call asked for history, every plain listener and every
\* enabled middleware is called once, and no timer of the burst stays pending.
\* A pending burst is eventually committed.
C4_DebounceCoalesces ==
    /\ [][/\ op'.name = "setState" /\ op'.args[3] =>
                /\ state' = state /\ prevState' = prevState
                /\ undoStack' = undoStack /\ redoStack' = redoStack
                /\ calls' = <<>>
          /\ op'.name = "debounceTimer" =>
                /\ burst.n >= 1
                /\ state' = burst.newState
                /\ undoStack' = IF burst.addToUndoStack
                                THEN Append(undoStack, state) ELSE undoStack
                /\ \A i \in 1..Len(listeners) : CountCalls("listener", listeners[i])' = 1
                /\ \A i \in 1..Len(middlewares) :
                      CountCalls("middleware", middlewares[i].middleware)' = 1
                /\ debounceTimeout' = <<>>]_vars
    /\ (burst.n > 0) ~> (op.name = "debounceTimer")

\* C4 witness: the timer has fired after three debounced calls, the last of
\* which differed from the one before it, and the listener has been notified
C4_Witness ==
    /\ op.name = "debounceTimer"
    /\ op.before.burst = 3
    /\ state = [a |-> 2, b |-> 1]
    /\ Len(undoStack) = 1
    /\ CountCalls("listener", "l2") = 1
    /\ CountCalls("middleware", "m2") = 1

\* the object in which every key of the queued partials has the value given
\* by the last partial that has the key
LaterWins(queue) ==
    [k \in UNION {DOMAIN queue[i] : i \in 1..Len(queue)} |->
        LET last == CHOOSE i \in 1..Len(queue) :
                       /\ k \in DOMAIN queue[i]
                       /\ \A j \in (i + 1)..Len(queue) : k \notin DOMAIN queue[j]
        IN queue[last][k]]

\* C5: batch protocol.  While a batch is open, queueBatchUpdate(p) only
\* appends p to the queue: no commit, no middleware call, no notification.
\* endBatchUpdate() with k >= 1 queued partials makes one commit: the state
\* becomes the left-to-right fold of the partials (the later partial wins on
\* a key conflict), the outgoing state is pushed once on the undo stack, and
\* every plain listener and every enabled middleware is called once.
\* endBatchUpdate() with an empty queue commits nothing and notifies nobody.
\* In both cases the batch is closed and the queue is empty afterwards.
C5_BatchProtocol ==
    [][/\ op'.name = "queueBatchUpdate" /\ batchUpdatePending =>
             /\ batchUpdateQueue' = Append(batchUpdateQueue, op'.args[1])
             /\ batchUpdatePending'
             /\ state' = state /\ prevState' = prevState
             /\ undoStack' = undoStack /\ redoStack' = redoStack
             /\ calls' = <<>>
       /\ op'.name = "endBatchUpdate" /\ Len(batchUpdateQueue) > 0 =>
             /\ state' = LaterWins(batchUpdateQueue)
             /\ undoStack' = Append(undoStack, state)
             /\ \A i \in 1..Len(listeners) : CountCalls("listener", listeners[i])' = 1
             /\ \A i \in 1..Len(middlewares) :
                   CountCalls("middleware", middlewares[i].middleware)' = 1
             /\ Len(calls') = Len(listeners) + Len(middlewares)
       /\ op'.name = "endBatchUpdate" /\ Len(batchUpdateQueue) = 0 =>
             /\ state' = state /\ prevState' = prevState
             /\ undoStack' = undoStack /\ redoStack' = redoStack
             /\ calls' = <<>>
       /\ op'.name = "endBatchUpdate" =>
             /\ ~batchUpdatePending'
             /\ batchUpdateQueue' = <<>>]_vars

\* C5 witness: the batch {a: 1, b: 1}, {a: 2} has been flushed, the later
\* partial winning on key a, in front of a listener and a middleware
C5_Witness ==
    /\ op.name = "endBatchUpdate"
    /\ op.before.queueSize = 2
    /\ prevState = [a |-> 1]
    /\ state = [a |-> 2, b |-> 1]
    /\ ~batchUpdatePending
    /\ CountCalls("listener", "l2") = 1
    /\ CountCalls("middleware", "m2") = 1

\* the ids of the entries of log that are calls of fn, in order
CalledIds(log, fn) ==
    LET picked == SelectSeq(log, LAMBDA c : c.fn = fn)
    IN [i \in 1..Len(picked) |-> picked[i].id]

\* how many entries of log deliver the error of callback id to the error
\* handler, which is the registered handler or else the console
Deliveries(log, id, handler) ==
    Cardinality({i \in 1..Len(log) :
        /\ log[i].id = id
        /\ log[i].fn = IF handler # NULL THEN "errorHandler" ELSE "console.error"})

\* log is the call log of one commit made over the registry mws with the
\* plain listeners ls: the enabled middleware were called in insertion order,
\* throwing or not, each throwing one was delivered once to the error handler,
\* no other one was, and every plain listener was called
IsolatedPipeline(mws, ls, handler, log) ==
    LET enabled == SelectSeq(mws, LAMBDA e : e.enabled)
    IN /\ CalledIds(log, "middleware") = [i \in 1..Len(enabled) |-> enabled[i].middleware]
       /\ \A i \in 1..Len(enabled) :
             Deliveries(log, enabled[i].middleware, handler) =
                IF enabled[i].middleware \in ThrowingMiddlewares THEN 1 ELSE 0
       /\ CalledIds(log, "listener") = ls

\* C6: middleware failure isolation.  In every commit (setState, mergeState,
\* patchState, resetState, and the flush of a batch) every enabled middleware
\* is invoked in insertion order also after one of them has thrown, the state
\* is replaced by the candidate, every plain listener is notified, and each
\* throwing middleware is delivered to the error handler exactly once.
C6_MiddlewareFailureIsolated ==
    [][/\ op'.name \in {"setState", "mergeState", "patchState", "resetState"} =>
             /\ IsolatedPipeline(middlewares, listeners, errorHandler, calls')
             /\ op'.name = "setState" => state' = op'.args[1]
             /\ op'.name \in {"mergeState", "patchState"} =>
                   Overlaid(state, op'.args[1], state')
             /\ op'.name = "resetState" => state' = initialState
       /\ \A p \in Partials :
             LET flushed == endBatchUpdate(queueBatchUpdate(startBatchUpdate(This), p))
             IN /\ IsolatedPipeline(middlewares, listeners, errorHandler, flushed.calls)
                /\ flushed.state = p]_vars

\* C6 witness: a commit in which the first of two enabled middleware threw,
\* the registered handler received it, the second middleware and the plain
\* listener were called and the state was replaced
C6_Witness ==
    /\ op.name = "setState"
    /\ errorHandler # NULL
    /\ state = op.args[1]
    /\ state # prevState
    /\ Len(calls) = 4
    /\ calls[1].fn = "middleware" /\ calls[1].id = "m1"
    /\ calls[2].fn = "errorHandler" /\ calls[2].id = "m1"
    /\ calls[3].fn = "middleware" /\ calls[3].id = "m2"
    /\ calls[4].fn = "listener" /\ calls[4].id = "l2"

\* how often log records a call of callback cb as a listener of event name
EventCalls(log, name, cb) ==
    Cardinality({i \in 1..Len(log) :
        log[i].fn = "eventListener" /\ log[i].id = cb /\ log[i].ev = name})

\* log is the call log of one notification pass over the plain listeners ls
\* and the event registry evs for the state st: every plain listener was
\* called, in order, every callback of an event that is a key of st was called
\* once, and each throwing one was delivered once to the error handler
NotificationPass(log, ls, evs, st, handler) ==
    /\ CalledIds(log, "listener") = ls
    /\ \A i \in 1..Len(ls) :
          Deliveries(log, ls[i], handler) = IF ls[i] \in ThrowingListeners THEN 1 ELSE 0
    /\ \A i \in 1..Len(evs) : \A j \in 1..Len(evs[i].callbacks) :
          LET cb == evs[i].callbacks[j]
          IN IF evs[i].name \in DOMAIN st
             THEN /\ EventCalls(log, evs[i].name, cb) = 1
                  /\ Deliveries(log, cb, handler) =
                        IF cb \in ThrowingEventCallbacks THEN 1 ELSE 0
             ELSE EventCalls(log, evs[i].name, cb) = 0

\* log is the call log of triggerEvent(name, data) over the callbacks cbs
TriggerPass(log, name, data, cbs, handler) ==
    /\ CalledIds(log, "eventListener") = cbs
    /\ \A i \in 1..Len(log) :
          log[i].fn = "eventListener" => log[i].ev = name /\ log[i].args = <<data>>
    /\ \A i \in 1..Len(cbs) :
          Deliveries(log, cbs[i], handler) =
             IF cbs[i] \in ThrowingEventCallbacks THEN 1 ELSE 0

\* C7: listener failure isolation.  In the notification pass of a commit, an
\* undo or a redo, and in a triggerEvent call, a throwing plain listener or
\* event listener is delivered to the error handler exactly once, every
\* listener registered after it is still invoked, and the state replacement
\* already made stays.
C7_ListenerFailureIsolated ==
    [][/\ op'.name = "setState" =>
             /\ state' = op'.args[1]
             /\ NotificationPass(calls', listeners, eventListeners, state', errorHandler)
       /\ op'.name = "undo" /\ Len(undoStack) > 0 =>
             /\ state' = undoStack[Len(undoStack)]
             /\ NotificationPass(calls', listeners, eventListeners, state', errorHandler)
       /\ op'.name = "redo" /\ Len(redoStack) > 0 =>
             /\ state' = redoStack[Len(redoStack)]
             /\ NotificationPass(calls', listeners, eventListeners, state', errorHandler)
       /\ op'.name = "triggerEvent" =>
             /\ state' = state
             /\ LET i == eventIndex(This, op'.args[1])
                IN TriggerPass(calls', op'.args[1], op'.args[2],
                               IF i # 0 THEN eventListeners[i].callbacks ELSE <<>>,
                               errorHandler)]_vars

\* C7 witness: a commit whose pass met a throwing plain listener and a
\* throwing event listener, each followed by a listener registered later
C7_Witness ==
    /\ op.name = "setState"
    /\ errorHandler # NULL
    /\ state = [a |-> 1]
    /\ listeners = <<"l1", "l2">>
    /\ CalledIds(calls, "listener") = <<"l1", "l2">>
    /\ CalledIds(calls, "eventListener") = <<"e1", "e2">>
    /\ CalledIds(calls, "errorHandler") = <<"l1", "e1">>

\* C8 as claimed: no public operation, the detach functions returned by
\* subscribe() and on() included, throws to its caller.
C8_NoExceptionCrossesBoundary == thrown = NoError

\* C9 as claimed: calling a detach function returned by subscribe() or on(),
\* in any state, raises no error, leaves every other registered listener
\* registered and leaves the detached listener unregistered.
C9_DetachIsHarmless ==
    [][/\ op'.name = "unsubscribe" =>
             /\ thrown' = NoError
             /\ listeners' = SelectSeq(listeners, LAMBDA l : l # op'.args[1])
             /\ eventListeners' = eventListeners
       /\ op'.name = "off" =>
             /\ thrown' = NoError
             /\ listeners' = listeners
             /\ \A r \in EventRegs :
                   Registered(r[1], r[2])' =
                      (Registered(r[1], r[2]) /\ r # <<op'.args[1], op'.args[2]>>)]_vars

\* C10 as claimed: after resetState() getState() returns what it returned
\* right after construction, also when the constructor adopted a stored
\* snapshot.
C10_ResetRestoresConstructedState ==
    op.name = "resetState" => getState(This) = born.state

\* C10 as amended: after resetState() getState() returns the initial value
\* the caller gave to the constructor; that is what getState() returned right
\* after construction exactly when the constructor adopted no stored snapshot.
C10_ResetRestoresInitialArgument ==
    /\ op.name = "resetState" => getState(This) = born.initial
    /\ op.name = "resetState" /\ born.state = born.initial =>
          getState(This) = born.state

\* C10 witness: resetState() has run after a commit in a manager whose
\* constructor adopted a stored snapshot other than its argument
C10_Witness ==
    /\ op.name = "resetState"
    /\ born.state = [a |-> 2]
    /\ born.initial = [a |-> 1]
    /\ state = [a |-> 1]
    /\ Len(undoStack) > 0

\* the texts of the current state and of the snapshots on the two stacks
Committed ==
    [state |-> JSONstringify(heap, state),
     undoStack |-> [i \in 1..Len(undoStack) |-> JSONstringify(heap, undoStack[i])],
     redoStack |-> [i \in 1..Len(redoStack) |-> JSONstringify(heap, redoStack[i])]]

\* C11: deep-copy isolation.  A nested object the application got while deep
\* mode was enabled (in the result of getState(), in the argument of its plain
\* listener, or in the object it passed to setState or mergeState) shares
\* nothing with the manager: assigning to it changes neither the current state
\* nor a snapshot on the undo or redo stack, and getState() returns afterwards
\* what it returned before.
C11_DeepCopyIsolation ==
    [][/\ op'.name = "mutate" /\ held[op'.args[1]][1].deep =>
             /\ Committed' = Committed
             /\ JSONstringify(withCopyOf(This, state).heap, getState(This))' =
                   JSONstringify(withCopyOf(This, state).heap, getState(This))
       /\ deepStateComparison /\ op'.name = "getState" =>
             \A v \in NestedValues :
                LET built == [This EXCEPT !.heap = Append(@, v)]
                    merged == mergeState(built, [nested |-> -Len(built.heap)])
                IN /\ \A cells \in {cellsOfManager(merged)} :
                         \A i \in 1..Len(cells) : cells[i] # Len(built.heap)
                   /\ JSONstringify(merged.heap, merged.state) =
                         JSONstringify(built.heap,
                                       spread2(state, [nested |-> -Len(built.heap)]))]_vars

\* C11 witness: with deep mode enabled the application has assigned 2 to the
\* nested value of a getState() result while the state, with history behind
\* it, holds 1
C11_Witness ==
    /\ op.name = "mutate"
    /\ op.args = <<"getState", 2>>
    /\ held["getState"][1].deep
    /\ deepStateComparison
    /\ JSONstringify(heap, state) = {<<"nested", "object", 1>>}
    /\ Len(undoStack) > 0

\* C12: middleware arguments.  In every commit each enabled middleware is
\* invoked with (P, C) where P is the state that was current immediately
\* before this commit and C is the candidate that becomes the state, in the
\* second and later commits as well as in the first.
C12_MiddlewareGetsCurrentAndCandidate ==
    [][op'.name \in {"setState", "mergeState", "patchState", "resetState"} =>
          \A i \in 1..Len(calls') :
             calls'[i].fn = "middleware" => calls'[i].args = <<state, state'>>]_vars

\* log shows no two middleware in flight at once: a middleware that rejects
\* has been delivered to the error handler before the next entry of the log
Sequential(log) ==
    \A i \in 1..Len(log) :
       log[i].fn = "middleware" /\ log[i].id \in ThrowingMiddlewares =>
          /\ i < Len(log)
          /\ log[i + 1].fn \in {"errorHandler", "console.error"}
          /\ log[i + 1].id = log[i].id

Swaps ==
    \/ op'.name = "setState" /\ ~op'.args[3]
    \/ op'.name = "undo" /\ Len(undoStack) > 0
    \/ op'.name = "redo" /\ Len(redoStack) > 0

\* the arguments of the calls of log made as fn, in the order of the calls
CalledArgs(log, fn) ==
    LET picked == SelectSeq(log, LAMBDA c : c.fn = fn)
    IN [i \in 1..Len(picked) |-> picked[i].args]

\* C14: plain-listener fan-out.  Within every commit, undo or redo that
\* replaces the state each plain listener registered when the operation starts
\* is invoked exactly once, in registration order, with a value equal to the
\* new state; a listener that was detached before is not invoked.
C14_PlainListenerFanout ==
    [][Swaps =>
          /\ CalledIds(calls', "listener") = listeners
          /\ CalledArgs(calls', "listener") = [i \in 1..Len(listeners) |-> <<state'>>]
          /\ listeners' = listeners]_vars

\* C14 witness: an undo back to the empty state has called the two plain
\* listeners in the order l2, l1 in which they were registered
C14_Witness ==
    /\ op.name = "undo"
    /\ op.before.undoSize > 0
    /\ listeners = <<"l2", "l1">>
    /\ CalledIds(calls, "listener") = <<"l2", "l1">>
    /\ state = EmptyObj

\* the calls of log made to the callbacks registered under the event name
EventLog(log, name) ==
    SelectSeq(log, LAMBDA c : c.fn = "eventListener" /\ c.ev = name)

\* log holds one call of each callback of cbs under name, in the order of
\* cbs, each with data
FiredOnce(log, name, cbs, data) ==
    EventLog(log, name) =
       [i \in 1..Len(cbs) |-> Call("eventListener", cbs[i], name, <<data>>)]

\* C15: implicit event firing.  In every commit, for every event name with
\* registered listeners that is a top-level key of the new state every
\* listener under that name is invoked exactly once, in registration order,
\* with the value of that key; the listeners under a name that is not a
\* top-level key of the new state are not invoked.
C15_ImplicitEventFiring ==
    [][op'.name = "setState" =>
          \A i \in 1..Len(eventListeners) :
             IF eventListeners[i].name \in DOMAIN state'
             THEN FiredOnce(calls', eventListeners[i].name, eventListeners[i].callbacks,
                            state'[eventListeners[i].name])
             ELSE EventLog(calls', eventListeners[i].name) = <<>>]_vars

\* the callbacks registered under the event name, <<>> when there are none
CallbacksUnder(name) ==
    IF eventIndex(This, name) = 0 THEN <<>>
    ELSE eventListeners[eventIndex(This, name)].callbacks

\* C16: triggerEvent(name, payload) invokes every listener registered under
\* name exactly once, in registration order, with payload, whether or not
\* name is a key of the state; it invokes no plain listener, no middleware and
\* no listener of another event name, and leaves the state and both stacks
\* unchanged; with no listener under name it does nothing.
C16_TriggerEventFrame ==
    [][op'.name = "triggerEvent" =>
          /\ FiredOnce(calls', op'.args[1], CallbacksUnder(op'.args[1]), op'.args[2])
          /\ \A i \in 1..Len(calls') :
                \/ calls'[i].fn = "eventListener" /\ calls'[i].ev = op'.args[1]
                \/ /\ calls'[i].fn \in {"errorHandler", "console.error"}
                   /\ calls'[i].id \in ThrowingEventCallbacks
          /\ state' = state /\ undoStack' = undoStack /\ redoStack' = redoStack
          /\ CallbacksUnder(op'.args[1]) = <<>> => calls' = <<>> /\ This' = This]_vars

\* C16 witness: triggerEvent("x", 7) has called the listener under x, which
\* is not a key of the state, in front of a plain listener, a middleware, a
\* listener of event a, which is a key of the state, and a non-empty undo stack
C16_Witness ==
    /\ op.name = "triggerEvent"
    /\ op.args = <<"x", 7>>
    /\ calls = <<Call("eventListener", "e2", "x", <<7>>)>>
    /\ state = [a |-> 1]
    /\ CallbacksUnder("a") # <<>>
    /\ listeners # <<>>
    /\ middlewares # <<>>
    /\ undoStack # <<>>

\* C17: undo() with an empty undo stack and redo() with an empty redo stack
\* are no-ops: the state, both stacks and the previous-state baseline are
\* unchanged and no listener, event listener or middleware is invoked.
C17_EmptyHistoryNoOp ==
    [][\/ op'.name = "undo" /\ undoStack = <<>>
       \/ op'.name = "redo" /\ redoStack = <<>> =>
          /\ state' = state /\ prevState' = prevState
          /\ undoStack' = undoStack /\ redoStack' = redoStack
          /\ calls' = <<>>
          /\ This' = This]_vars

\* C17 witness: redo() was called with an empty redo stack while a plain
\* listener, a middleware and a listener of the state key a were registered
\* and the undo stack was not empty
C17_Witness ==
    /\ op.name = "redo"
    /\ op.before.redoSize = 0
    /\ op.before.undoSize > 0
    /\ listeners # <<>>
    /\ middlewares # <<>>
    /\ state = [a |-> 1]
    /\ CallbacksUnder("a") # <<>>
    /\ calls = <<>>

\* the text saveState writes for theState under the options in force
Serialized(theState) ==
    IF persistence.options.fileType = "json"
    THEN JSONtext(JSONstringify(<<>>, theState), persistence.options.spaces)
    ELSE ObjectObject

\* theState is a JSON value: the text JSON.stringify gives for it denotes it
Serializable(theState) ==
    /\ ~isCircular(theState)
    /\ JSONparse(<<>>, JSONstringify(<<>>, theState)) = theState

\* C18: persistence round trip.  With the JSON format, for every serializable
\* state S, a loadState() that directly follows a saveState(S) that resolved
\* with true resolves with a value equal to S; and a successful saveState(T)
\* leaves in the file the text of T alone, whatever the file held before.
C18_PersistenceRoundTrip ==
    [][/\ /\ op'.name = "loadState"
          /\ op.name = "saveState" /\ resolved = Boolean(TRUE)
          /\ persistence.options.fileType = "json"
          /\ Serializable(op.args[1])
          => resolved' = Object(op.args[1])
       /\ op'.name = "saveState" /\ resolved' = Boolean(TRUE) =>
             /\ files'[persistence.filePath].exists
             /\ files'[persistence.filePath].content = Serialized(op'.args[1])]_vars

\* C18 witness: loadState() resolved with {a: 1} right after saveState({a: 1})
\* resolved with true over a backup file that holds another state
C18_Witness ==
    /\ op.name = "loadState"
    /\ op.before.name = "saveState"
    /\ op.before.args = <<[a |-> 1]>>
    /\ op.before.resolved = Boolean(TRUE)
    /\ resolved = Object([a |-> 1])
    /\ files[backupPathOf(persistence.filePath)].exists
    /\ files[backupPathOf(persistence.filePath)].content.members =
          JSONstringify(<<>>, [a |-> 2, b |-> 1])

\* C19: backup/restore round trip.  After backupState(S) has resolved with
\* true for a serializable S, and whatever deleteFile(), saveState() and
\* truncateFile() calls have followed on the primary file, restoreFromBackup()
\* resolves with a value equal to S and the primary file holds S again; when
\* no backup file exists it resolves with null and leaves the files alone.
C19_BackupRestoreRoundTrip ==
    [][op'.name = "restoreFromBackup" =>
          /\ /\ backedUp # <<>>
             /\ persistence.options.fileType = "json"
             /\ Serializable(backedUp[1])
             => /\ resolved' = Object(backedUp[1])
                /\ files'[persistence.filePath].exists
                /\ files'[persistence.filePath].content.members =
                      JSONstringify(<<>>, backedUp[1])
          /\ ~files[backupPathOf(persistence.filePath)].exists =>
                resolved' = Null /\ files' = files]_vars

\* C20: backupState(S) resolves with false whenever saving S to the primary
\* file fails, also when an older primary file exists and can be copied, and
\* whenever copying to the backup file fails; whenever it resolves with true
\* the backup file holds the serialization of S.
C20_BackupFalseWhenAStepFails ==
    [][op'.name = "backupState" =>
          LET saved == saveState(persistence, files, op'.args[1])
              copied == copyFile(saved.files, persistence.filePath,
                                 backupPathOf(persistence.filePath))
          IN /\ ~saved.result.flag => resolved' = Boolean(FALSE)
             /\ ~copied.ok => resolved' = Boolean(FALSE)
             /\ resolved' = Boolean(TRUE) =>
                   files'[backupPathOf(persistence.filePath)].content =
                      Serialized(op'.args[1])]_vars

\* C26: a non-empty undo() or redo() invokes no middleware, runs exactly one
\* notification pass and moves exactly one snapshot: undo pops the top of
\* the undo stack, pushes the state that was current onto the redo stack and
\* makes the popped snapshot current; redo is the mirror image.
C26_UndoRedoMoveOneSnapshot ==
    [][/\ op'.name = "undo" /\ undoStack # <<>> =>
             /\ state' = undoStack[Len(undoStack)]
             /\ undoStack' = SubSeq(undoStack, 1, Len(undoStack) - 1)
             /\ redoStack' = Append(redoStack, state)
       /\ op'.name = "redo" /\ redoStack # <<>> =>
             /\ state' = redoStack[Len(redoStack)]
             /\ redoStack' = SubSeq(redoStack, 1, Len(redoStack) - 1)
             /\ undoStack' = Append(undoStack, state)
       /\ \/ op'.name = "undo" /\ undoStack # <<>>
          \/ op'.name = "redo" /\ redoStack # <<>>
          => /\ CalledIds(calls', "middleware") = <<>>
             /\ CalledIds(calls', "listener") = listeners
             /\ CalledArgs(calls', "listener") =
                   [i \in 1..Len(listeners) |-> <<state'>>]]_vars

\* C26 witness: with a middleware and a plain listener registered a redo has
\* taken {a: 2, b: 1} from the redo stack and put {a: 1} on the undo stack,
\* calling the listener alone
C26_Witness ==
    /\ op.name = "redo"
    /\ op.before.redoSize = 1
    /\ middlewares # <<>>
    /\ state = [a |-> 2, b |-> 1]
    /\ undoStack = <<[a |-> 1]>>
    /\ redoStack = <<>>
    /\ CalledIds(calls, "listener") = <<"l2">>
    /\ Len(calls) = 1

\* C27: resetState() bypasses history.  In every reachable state it leaves
\* the contents of the undo stack and of the redo stack unchanged, and it
\* invokes every enabled middleware once and every plain listener once.
C27_ResetBypassesHistory ==
    [][op'.name = "resetState" =>
          /\ undoStack' = undoStack
          /\ redoStack' = redoStack
          /\ CalledIds(calls', "middleware") =
                [i \in 1..Len(SelectSeq(middlewares, LAMBDA e : e.enabled)) |->
                    SelectSeq(middlewares, LAMBDA e : e.enabled)[i].middleware]
          /\ CalledIds(calls', "listener") = listeners]_vars

\* C27 witness: resetState() has gone back from {a: 2, b: 1} to the initial
\* {a: 1} with a snapshot on each stack, calling the middleware and the
\* plain listener
C27_Witness ==
    /\ op.name = "resetState"
    /\ state = [a |-> 1]
    /\ prevState = [a |-> 1]
    /\ Len(undoStack) = 1
    /\ Len(redoStack) = 1
    /\ CalledIds(calls, "middleware") = <<"m2">>
    /\ calls[1].args = <<[a |-> 2, b |-> 1], [a |-> 1]>>
    /\ CalledIds(calls, "listener") = <<"l2">>

\* C30: history accounting.  A completed setState with history recording on
\* makes the undo stack one longer, the pushed snapshot being the pre-commit
\* state, and empties the redo stack; a completed setState with recording off
\* leaves both stacks unchanged; a non-empty undo() or redo() preserves the
\* sum of the two sizes; clearHistory() empties both stacks without changing
\* the state or notifying anyone.
C30_HistoryAccounting ==
    [][/\ op'.name = "setState" /\ ~op'.args[3] /\ op'.args[2] =>
             /\ undoStack' = Append(undoStack, state)
             /\ redoStack' = <<>>
       /\ op'.name = "setState" /\ ~op'.args[3] /\ ~op'.args[2] =>
             /\ undoStack' = undoStack
             /\ redoStack' = redoStack
       /\ \/ op'.name = "undo" /\ undoStack # <<>>
          \/ op'.name = "redo" /\ redoStack # <<>>
          => Len(undoStack') + Len(redoStack') = Len(undoStack) + Len(redoStack)
       /\ op'.name = "clearHistory" =>
             /\ undoStack' = <<>> /\ redoStack' = <<>>
             /\ state' = state
             /\ calls' = <<>>]_vars

\* C30 witness: clearHistory() has emptied an undo stack and a redo stack of
\* one snapshot each in front of a plain listener, the state staying {a: 1}
C30_Witness ==
    /\ op.name = "clearHistory"
    /\ op.before.undoSize = 1
    /\ op.before.redoSize = 1
    /\ undoStack = <<>> /\ redoStack = <<>>
    /\ listeners # <<>>
    /\ calls = <<>>
    /\ state = [a |-> 1]

\* the step is a completed commit, undo, redo or resetState
Replaces ==
    \/ op'.name \in {"setState", "mergeState", "patchState"}
    \/ op'.name = "undo" /\ undoStack # <<>>
    \/ op'.name = "redo" /\ redoStack # <<>>
    \/ op'.name = "resetState"

\* the state the step is to make current
Target ==
    CASE op'.name = "setState" -> op'.args[1]
      [] op'.name \in {"mergeState", "patchState"} -> spread2(state, op'.args[1])
      [] op'.name = "undo" -> undoStack[Len(undoStack)]
      [] op'.name = "redo" -> redoStack[Len(redoStack)]
      [] op'.name = "resetState" -> initialState

\* C28: the storage snapshot follows the state.  With a storage whose writes
\* succeed, after every completed commit, undo, redo and resetState the value
\* under the storage key is the serialization of the current state; when the
\* write fails the failure goes once to the error handler, and the state
\* replacement and the notification stand.
C28_SnapshotFollowsState ==
    [][Replaces /\ localStorage.defined =>
          /\ state' = Target
          /\ CalledIds(calls', "listener") = listeners
          /\ IF localStorage.full
             THEN /\ Deliveries(calls', "QuotaExceededError", errorHandler) = 1
                  /\ localStorage' = localStorage
             ELSE /\ localStorage'.item = <<JSONstringify(heap', state')>>
                  /\ Deliveries(calls', "QuotaExceededError", errorHandler) = 0]_vars

\* C28 witness: an undo has put {a: 1} back and the storage, which held the
\* snapshot {a: 2} when the manager was constructed, holds the text of {a: 1}
C28_Witness ==
    /\ op.name = "undo"
    /\ op.before.undoSize = 2
    /\ born.state = [a |-> 2]
    /\ state = [a |-> 1]
    /\ localStorage.defined /\ ~localStorage.full
    /\ localStorage.item = <<JSONstringify(<<>>, [a |-> 1])>>
    /\ CalledIds(calls, "listener") = <<"l2">>

\* what a renameFile(newPath) that ends this step has done: it resolved with
\* true, recorded newPath and moved the file there, leaving every other file
\* alone; or it resolved with false and changed neither the object nor a file
Renamed ==
    LET oldPath == persistence.filePath
        newPath == op'.args[1].path
    IN /\ resolved' \in {Boolean(TRUE), Boolean(FALSE)}
       /\ resolved' = Boolean(TRUE) =>
             /\ files[oldPath].exists
             /\ persistence' = [persistence EXCEPT !.filePath = newPath]
             /\ files'[newPath] = files[oldPath]
             /\ \A path \in Paths \ {oldPath, newPath} : files'[path] = files[path]
       /\ resolved' = Boolean(FALSE) =>
             /\ persistence' = persistence
             /\ files' = files

\* a saveState that resolved with true right after a successful
\* renameFile(newPath) has written the file at newPath and no other
SavedAtNewPath ==
    /\ op.name = "renameFile" /\ resolved = Boolean(TRUE)
    /\ op'.name = "saveState" /\ resolved' = Boolean(TRUE)
    => /\ files'[op.args[1].path].content = Serialized(op'.args[1])
       /\ \A path \in Paths \ {op.args[1].path} : files'[path] = files[path]

\* C29: renameFile(newPath) records newPath exactly when the rename
\* succeeds; when it fails it resolves with false and neither the recorded
\* path nor a file changes; after success the file is at newPath, later
\* saves address newPath, and the old path no longer exists unless newPath is
\* the path the object already had.
C29_RenameRecordsPathOnSuccess ==
    [][/\ op'.name = "renameFile" =>
             /\ Renamed
             /\ /\ resolved' = Boolean(TRUE)
                /\ op'.args[1].path # persistence.filePath
                => ~files'[persistence.filePath].exists
       /\ SavedAtNewPath]_vars

\* C29 witness: renameFile("renamed-state.json") has moved the file that
\* holds {a: 1} from "state.json" and resolved with true
C29_Witness ==
    /\ op.name = "renameFile"
    /\ op.args = <<[path |-> <<"renamed-state.json">>]>>
    /\ resolved = Boolean(TRUE)
    /\ persistence.filePath = <<"renamed-state.json">>
    /\ files[<<"renamed-state.json">>].exists
    /\ files[<<"renamed-state.json">>].content.members = JSONstringify(<<>>, [a |-> 1])
    /\ ~files[<<"state.json">>].exists

\* C29 as stated: after every successful renameFile the old path no longer
\* exists
C29_OldPathGoneAfterEveryRename ==
    [][/\ op'.name = "renameFile" =>
             /\ Renamed
             /\ (resolved' = Boolean(TRUE) => ~files'[persistence.filePath].exists)
       /\ SavedAtNewPath]_vars

\* C22: a failed save leaves the previous file untouched.  Whenever
\* saveState(S) or saveStateWithValidation(S) resolves with false, the primary
\* file exists or not as before and holds the content it held, and a
\* loadState() resolves with what it would have resolved with before.
C22_FailedSaveLeavesFileUntouched ==
    [][/\ op'.name \in {"saveState", "saveStateWithValidation"}
       /\ resolved' = Boolean(FALSE)
       => /\ files'[persistence.filePath].exists = files[persistence.filePath].exists
          /\ files'[persistence.filePath].content = files[persistence.filePath].content
          /\ loadState(persistence', files').result =
                loadState(persistence, files).result]_vars

\* the operations of the persistence object that resolve with a boolean and
\* those that resolve with a value or null
BooleanOperations ==
    {"saveState", "saveStateWithValidation", "renameFile", "deleteFile",
     "truncateFile", "appendToFile", "writeFileChunk", "backupState"}
ValueOperations == {"loadState", "getFileInfo", "readFileChunk", "restoreFromBackup"}

\* the operation that ends this step has met a failure: its state has no
\* JSON text, the file it needs is missing, its content is malformed, or the
\* file system refuses the call it makes on the files as they are
PrimaryFails ==
    LET filePath == persistence.filePath
        arg == op'.args[1]
        malformed(path) ==
            persistence.options.fileType = "json" /\ files[path].content.fmt # "json"
    IN CASE op'.name \in {"saveState", "saveStateWithValidation"} ->
                \/ isCircular(arg) /\ persistence.options.fileType = "json"
                \/ isCircular(arg) /\ op'.name = "saveStateWithValidation"
                \/ ~writeFile(files, filePath, Serialized(arg)).ok
         [] op'.name = "renameFile" -> ~rename(files, filePath, arg.path).ok
         [] op'.name = "deleteFile" -> ~unlink(files, filePath).ok
         [] op'.name = "truncateFile" -> ~truncate(files, filePath).ok
         [] op'.name = "appendToFile" -> ~appendFile(files, filePath, arg).ok
         [] op'.name = "writeFileChunk" ->
                \/ ~files[filePath].exists
                \/ ~writeFile(files, filePath, OtherText).ok
         [] op'.name \in {"loadState", "readFileChunk"} ->
                \/ ~files[filePath].exists
                \/ op'.name = "loadState" /\ malformed(filePath)
         [] op'.name = "getFileInfo" -> ~stat(files, filePath).ok
         [] op'.name = "restoreFromBackup" ->
                \/ ~files[backupPathOf(filePath)].exists
                \/ ~copyFile(files, backupPathOf(filePath), filePath).ok
                \/ malformed(backupPathOf(filePath))
         [] OTHER -> FALSE

\* backupState(S) has met a failure: S cannot be saved to the primary file, or
\* the primary file cannot be copied to the backup file
BackupFails ==
    LET saved == saveState(persistence, files, op'.args[1])
    IN \/ ~saved.result.flag
       \/ ~copyFile(saved.files, persistence.filePath,
                    backupPathOf(persistence.filePath)).ok

\* every operation but backupState resolves, and with its sentinel when it
\* has met a failure
ResolvesWithSentinel ==
    /\ op'.name \in BooleanOperations => resolved'.type = "boolean"
    /\ op'.name \in ValueOperations => resolved'.type \in {"null", "object", "string"}
    /\ op'.name \in BooleanOperations \ {"backupState"} /\ PrimaryFails
       => resolved' = Boolean(FALSE)
    /\ op'.name \in ValueOperations /\ PrimaryFails => resolved' = Null

\* C21: no operation of the persistence object throws to its caller.  Whatever
\* the file-system call underneath does (missing file, invalid path, rejected
\* write, malformed content), the operation resolves, and with its sentinel
\* when the call failed: false for saveState, renameFile, deleteFile,
\* truncateFile, appendToFile, writeFileChunk and backupState, null for
\* loadState, getFileInfo, readFileChunk and restoreFromBackup.
C21_NeverThrowsAcrossBoundary ==
    [][/\ ResolvesWithSentinel
       /\ op'.name = "backupState" /\ BackupFails => resolved' = Boolean(FALSE)]_vars

\* the methods that commit a state
CommitNames == {"setState", "mergeState", "patchState", "endBatchUpdate", "resetState"}

\* the commit whose continuation the event loop runs next
Resuming == inFlight[Head(microtasks)]

\* this step runs a commit to its end, from the return of applyMiddlewares
Completes ==
    /\ op'.name = "microtask"
    /\ microtasks # <<>>
    /\ Resuming.awaiting = ""

\* this step runs a commit from its call, or from a middleware that has
\* settled, to its next suspension
Suspends ==
    \/ op'.name \in CommitNames /\ ~Settled'
    \/ op'.name = "microtask" /\ microtasks # <<>> /\ Resuming.awaiting # ""

\* this step has called a middleware of a commit, or goes on after one
InMiddleware ==
    /\ Suspends
    /\ op'.name \in CommitNames => CalledIds(calls', "middleware") # <<>>

\* C24: middleware is not a veto gate and cannot transform the candidate.  For
\* every commit the state after the commit equals the candidate computed when
\* the commit was requested, whatever the enabled middleware do with their
\* arguments: read them, throw, reject, or modify the object they were handed
\* as next state.
C24_CommittedStateIsCandidate ==
    [][Completes => state' = Resuming.candidate]_vars

\* C23: commit step order.  In every commit (setState, mergeState, patchState,
\* batch flush and resetState alike) the middleware run first, then the
\* history push, the state swap and the notification.  While a middleware of
\* the commit runs or the commit is suspended, getState() returns the
\* pre-commit state, no snapshot is pushed and no listener is called; the
\* step that ends the commit calls no middleware, pushes the pre-commit state
\* when it records history, and calls every listener with the state it has
\* swapped in.
C23_CommitStepOrder ==
    [][/\ InMiddleware => getState(This') = getState(This)
       /\ Suspends =>
             /\ undoStack' = undoStack
             /\ CalledIds(calls', "listener") = <<>>
       /\ Completes =>
             /\ CalledIds(calls', "middleware") = <<>>
             /\ Resuming.addToUndoStack => undoStack' = Append(undoStack, state)
             /\ state' = Resuming.nextState
             /\ CalledIds(calls', "listener") = listeners
             /\ CalledArgs(calls', "listener") =
                   [i \in 1..Len(listeners) |-> <<state'>>]]_vars

\* a setState issued in this step has become a commit of its own, next to the
\* commits in flight, which it leaves as they are, and has called the first
\* enabled middleware at once
StartsAtOnce ==
    /\ inFlight'[FreeSlot].name = "setState"
    /\ inFlight'[FreeSlot].candidate = op'.args[1]
    /\ \A slot \in Slots \ {FreeSlot} : inFlight'[slot] = inFlight[slot]
    /\ enabledMiddlewares(This) # <<>> =>
          /\ CalledIds(calls', "middleware") = <<Head(enabledMiddlewares(This))>>
          /\ inFlight'[FreeSlot].awaiting = Head(enabledMiddlewares(This))

\* the commit that ends in this step has replaced the state by its candidate
\* and run one notification pass
ReplacesAndNotifies ==
    /\ state' = Resuming.candidate
    /\ CalledIds(calls', "listener") = listeners
    /\ CalledArgs(calls', "listener") = [i \in 1..Len(listeners) |-> <<state'>>]
    /\ inFlight'[Head(microtasks)] = NoCommit

\* C25: overlapping commits are not serialized.  A non-debounced setState
\* issued while an earlier one is suspended in its middleware phase is neither
\* dropped nor queued behind it: it becomes a commit of its own and its first
\* middleware is called at once, before the middleware of the earlier commit
\* has settled.  Every commit in flight ends, provided every middleware
\* settles, and when it ends it replaces the state by its candidate and runs
\* one notification pass.
C25_OverlappingCommitsBothComplete ==
    /\ [][/\ op'.name = "setState" => StartsAtOnce
          /\ Completes => ReplacesAndNotifies]_vars
    /\ \A slot \in Slots : inFlight[slot] # NoCommit ~> inFlight[slot] = NoCommit

\* C25 witness: a second setState has just been issued while the first waits
\* for the promise of its middleware "m4"; it is in flight too and has called
\* the same middleware
C25_Witness ==
    /\ op.name = "setState"
    /\ inFlight[1].name = "setState" /\ inFlight[1].awaiting = "m4"
    /\ inFlight[2].name = "setState" /\ inFlight[2].awaiting = "m4"
    /\ inFlight[1].candidate # inFlight[2].candidate
    /\ CalledIds(calls, "middleware") = <<"m4">>
    /\ listeners = <<"l2">>

\* the methods that overlay a partial state on the current state
OverlayNames == {"mergeState", "patchState"}

\* a mergeState or patchState issued in this step has computed its candidate
\* from the state of the moment of the call
CandidateFromStateAtCall ==
    inFlight'[FreeSlot].candidate = spread2(state, op'.args[1])

\* a setState is pending in slot 1 and a mergeState or patchState, issued
\* after it, in slot 2
OverlayBehindSetState ==
    /\ inFlight[1].name = "setState"
    /\ inFlight[2].name \in OverlayNames

\* this step ends the mergeState or patchState of slot 2 while the setState
\* issued before it is still pending
OverlayOvertakes ==
    /\ Completes
    /\ Head(microtasks) = 2
    /\ OverlayBehindSetState

\* a middleware that returns a promise which settles later is registered
AsyncRegistered ==
    \E i \in 1..Len(middlewares) : middlewares[i].middleware \in AsyncMiddlewares

Debounces == op.name = "setState" /\ op.args[3]

\* the closure the pending timer will run: the candidate and the history flag
\* of the debounced call
Pending == Head(debounceTimeout)

\* C32: a pending debounced commit is cancelled only by a later debounced
\* setState.  Every other operation issued inside the delay window (a
\* non-debounced setState, mergeState, patchState, undo, redo, resetState,
\* clearHistory, the batch operations) leaves the timer and its candidate as
\* they are; a debounced setState replaces the timer by one with its own
\* candidate, copied at the call.  When the timer fires, the candidate
\* replaces the state that is current then, and with history recording on
\* that state is pushed onto the undo stack.
C32_OnlyDebouncedSetStateCancels ==
    [][/\ ~Debounces' /\ op'.name # "debounceTimer" =>
             debounceTimeout' = debounceTimeout
       /\ Debounces' =>
             debounceTimeout' = <<[nextState |-> op'.args[1],
                                   addToUndoStack |-> op'.args[2]]>>
       /\ op'.name = "debounceTimer" =>
             /\ state' = Pending.nextState
             /\ Pending.addToUndoStack =>
                   /\ undoStack' = Append(undoStack, state)
                   /\ redoStack' = <<>>
             /\ ~Pending.addToUndoStack => undoStack' = undoStack
             /\ debounceTimeout' = <<>>]_vars

\* C32 witness: the batch {a: 2} has just been flushed inside the delay
\* window of setState({a: 1}, true, true): the flush has committed and pushed
\* its undo entry, and the timer is still pending with its candidate
C32_Witness ==
    /\ op.name = "endBatchUpdate"
    /\ op.before.queueSize = 1
    /\ state = [a |-> 2]
    /\ Len(undoStack) = 1
    /\ debounceTimeout = <<[nextState |-> [a |-> 1], addToUndoStack |-> TRUE]>>

\* the top-level keys the queued partials name
Named(queue) == UNION {DOMAIN queue[i] : i \in 1..Len(queue)}

\* this step is endBatchUpdate() with a queue that is not empty
Flushes == op'.name = "endBatchUpdate" /\ batchUpdateQueue # <<>>

\* C33: batch flush replaces rather than merges.  endBatchUpdate() with a
\* queue that is not empty commits the fold of the queued partials and nothing
\* else: the keys of the state afterwards are the keys the partials name, so
\* every key of the state before that no partial names is gone.  The flush
\* pushes one undo entry, the state before it, and one undo() brings that
\* state back.  queueBatchUpdate(p) outside a batch overlays p on the current
\* state, keeps its other keys and pushes no undo entry.
C33_FlushReplaces ==
    [][/\ Flushes =>
             /\ state' = LaterWins(batchUpdateQueue)
             /\ DOMAIN state' = Named(batchUpdateQueue)
             /\ \A k \in DOMAIN state \ Named(batchUpdateQueue) : k \notin DOMAIN state'
             /\ undoStack' = Append(undoStack, state)
             /\ undo(This').state = state
             /\ undo(This').undoStack = undoStack
       /\ op'.name = "queueBatchUpdate" /\ ~batchUpdatePending =>
             /\ Overlaid(state, op'.args[1], state')
             /\ DOMAIN state \subseteq DOMAIN state'
             /\ undoStack' = undoStack]_vars

\* C33 witness: the batch {a: 2} has been flushed over the state
\* {a: 2, b: 1}: key b, which the partial does not name, is gone, and the
\* state before the flush is the newest undo entry
C33_Witness ==
    /\ op.name = "endBatchUpdate"
    /\ op.before.queueSize = 1
    /\ prevState = [a |-> 2, b |-> 1]
    /\ state = [a |-> 2]
    /\ undoStack # <<>>
    /\ undoStack[Len(undoStack)] = [a |-> 2, b |-> 1]

\* this step is a commit of the scenario, with its notification pass
Notifies == op'.name \in {"setState", "mergeState"}

\* C34: fan-out iterates a snapshot of the plain-listener list.  One
\* notification pass invokes the listeners registered when it starts, each
\* once and in order: a listener that an earlier listener of the pass has
\* detached, through its detach function or removeAllListeners, is invoked
\* all the same, and a listener subscribed during the pass is not.  The list
\* after the pass, which the next pass invokes, has the changes: nothing
\* after removeAllListeners, no "l2" after its detach function was called,
\* one more "l2" after it was subscribed.
C34_FanoutIteratesSnapshot ==
    [][Notifies =>
          /\ CalledIds(calls', "listener") = listeners
          /\ InSeq(listeners, "l4") /\ ~InSeq(listeners, "l5") => listeners' = <<>>
          /\ InSeq(listeners, "l3") /\ ~InSeq(listeners, "l5") =>
                ~InSeq(listeners', "l2")
          /\ InSeq(listeners, "l5") /\ ~InSeq(listeners, "l3")
                                    /\ ~InSeq(listeners, "l4") =>
                listeners' = Append(listeners, "l2")]_vars

\* C34 witness: in one pass "l3" has detached "l2", "l2" has been invoked all
\* the same, and "l5" has subscribed "l2" again, which has not been invoked a
\* second time
C34_Witness ==
    /\ op.name = "setState"
    /\ CalledIds(calls, "listener") = <<"l3", "l2", "l5">>
    /\ listeners = <<"l3", "l5", "l2">>

\* the batch stays open and its queue is what it was
BatchUntouched ==
    /\ batchUpdatePending'
    /\ batchUpdateQueue' = batchUpdateQueue

\* C35: operations issued while a batch is open are not captured by it.
\* Between startBatchUpdate() and endBatchUpdate(), setState commits its
\* argument and mergeState and patchState commit their overlay at once, with
\* a notification pass, and the queue does not grow.  The flush of a queue
\* that is not empty then replaces the state they committed by the fold of
\* the queued partials.  startBatchUpdate() called while a batch is open
\* empties the queue: the partials are not committed and nobody is notified.
C35_OpenBatchCapturesNothing ==
    [][/\ batchUpdatePending /\ op'.name = "setState" =>
             /\ state' = op'.args[1]
             /\ CalledIds(calls', "listener") = listeners
             /\ BatchUntouched
       /\ batchUpdatePending /\ op'.name \in OverlayNames =>
             /\ Overlaid(state, op'.args[1], state')
             /\ CalledIds(calls', "listener") = listeners
             /\ BatchUntouched
       /\ batchUpdatePending /\ Flushes =>
             /\ state' = LaterWins(batchUpdateQueue)
             /\ prevState' = state
       /\ batchUpdatePending /\ op'.name = "startBatchUpdate" =>
             /\ batchUpdateQueue' = <<>>
             /\ batchUpdatePending'
             /\ state' = state /\ prevState' = prevState
             /\ undoStack' = undoStack
             /\ calls' = <<>>]_vars

\* C35 witness: the batch {a: 2} has been flushed over the state
\* {a: 2, b: 1}, which only a setState in an open batch of the scenario can
\* have committed, and has replaced it
C35_Witness ==
    /\ op.name = "endBatchUpdate"
    /\ op.before.queueSize > 0
    /\ prevState = [a |-> 2, b |-> 1]
    /\ state = [a |-> 2]
    /\ listeners = <<"l2">>
    /\ CalledIds(calls, "listener") = <<"l2">>

====
